---- MODULE Spec2Model ----
(***************************************************************************)
(* Model of the manifest validator (scripts/validate_config.py) and of the *)
(* install run that wraps it (comfyctl.py).                                *)
(*                                                                         *)
(* A parsed YAML value is a record of one shape for every type:           *)
(*   t  the type tag: "null", "bool", "int", "str", "list" or "map"        *)
(*   s  the text of a scalar (what str() prints), "" otherwise             *)
(*   k  the keys of a mapping in document order, <<>> otherwise            *)
(*   v  the items of a list or the values of a mapping, <<>> otherwise     *)
(***************************************************************************)
EXTENDS Integers, Sequences, FiniteSets, TLC

\* ---------------------------------------------------------------- bounds
MaxItems == 2
MaxWorkflows == 2

\* ---------------------------------------------------------------- values
Null == [t |-> "null", s |-> "", k |-> <<>>, v |-> <<>>]
Bool(b) == [t |-> "bool", s |-> b, k |-> <<>>, v |-> <<>>]
Num(n) == [t |-> "int", s |-> n, k |-> <<>>, v |-> <<>>]
Str(x) == [t |-> "str", s |-> x, k |-> <<>>, v |-> <<>>]
List(items) == [t |-> "list", s |-> "", k |-> <<>>, v |-> items]
Map(keys, vals) == [t |-> "map", s |-> "", k |-> keys, v |-> vals]
EmptyMap == Map(<<>>, <<>>)
EmptyList == List(<<>>)

\* Python truthiness: None, False, 0, "", [] and {} are falsy.
Truthy(x) ==
  CASE x.t = "null" -> FALSE
    [] x.t = "bool" -> x.s = "True"
    [] x.t = "int" -> x.s # "0"
    [] x.t = "str" -> x.s # ""
    [] x.t = "list" -> Len(x.v) > 0
    [] x.t = "map" -> Len(x.k) > 0

\* x or d
OrElse(x, d) == IF Truthy(x) THEN x ELSE d

\* key in m, for a mapping m
HasKey(m, key) == m.t = "map" /\ \E i \in 1..Len(m.k) : m.k[i] = key

\* m[key], for a mapping m that has the key
Lookup(m, key) == m.v[CHOOSE i \in 1..Len(m.k) : m.k[i] = key]

\* m.get(key, d), for a mapping m
Get(m, key, d) == IF HasKey(m, key) THEN Lookup(m, key) ELSE d

\* Lists and mappings are unhashable: they cannot be put in, or looked up
\* in, a set.
Hashable(x) == x.t \notin {"list", "map"}

\* What iterating x yields: the items of a list, the keys of a mapping, the
\* characters of a string.
Elements(x) ==
  CASE x.t = "list" -> x.v
    [] x.t = "map" -> [i \in 1..Len(x.k) |-> Str(x.k[i])]
    [] x.t = "str" -> [i \in 1..Len(x.s) |-> Str(SubSeq(x.s, i, i))]
    [] OTHER -> <<>>

\* iter(x) succeeds on lists, mappings and strings and raises TypeError on
\* None, booleans and integers.
Iterable(x) == x.t \in {"list", "map", "str"}

\* The text an f-string prints for x.
Text(x) ==
  CASE x.t = "null" -> "None"
    [] x.t = "list" -> IF Len(x.v) = 0 THEN "[]" ELSE "[...]"
    [] x.t = "map" -> IF Len(x.k) = 0 THEN "{}" ELSE "{...}"
    [] OTHER -> x.s

\* ------------------------------------------------------------- messages
\* One violation message: the section and kind stand for the fixed words of
\* the message, wf/cat/idx/arg for the values the f-string interpolates
\* (wf and idx are -1, cat and arg are "" where the message has none).
Msg(sec, kind, wf, cat, idx, arg) ==
  [sec |-> sec, kind |-> kind, wf |-> wf, cat |-> cat, idx |-> idx, arg |-> arg]

\* The outcome of a stretch of the script: the messages it appended to
\* errors and whether it ran through (ok) or raised an exception.
Ran(errs) == [errs |-> errs, ok |-> TRUE]
Raised(errs) == [errs |-> errs, ok |-> FALSE]

\* r followed by q: q runs only when r did not raise.
Then(r, q) == IF r.ok THEN [errs |-> r.errs \o q.errs, ok |-> q.ok] ELSE r

\* for i in lo..hi: F(i), stopping at the first iteration that raises
RECURSIVE ForEach(_, _, _)
ForEach(F(_), lo, hi) ==
  IF lo > hi THEN Ran(<<>>) ELSE Then(F(lo), ForEach(F, lo + 1, hi))

\* ------------------------------------------------- structural checks
AllowedTop == {"install", "models", "custom_nodes", "workflows"}
AllowedInstall == {"comfy_dir", "cpu_only"}
ReservedModelKeys == {"dest_dir", "source_dir"}
ContentKeys == {"urn", "url", "id"}

\* for key in data: if key not in allowed_top: errors.append(...)
\* data is whatever the document's root is: iterating a non-mapping root
\* yields its items or characters, or raises; the membership test hashes
\* the key.
TopKeyStep(key) ==
  IF ~Hashable(key) THEN Raised(<<>>)
  ELSE IF key.t = "str" /\ key.s \in AllowedTop THEN Ran(<<>>)
  ELSE Ran(<<Msg("top", "unknown key", -1, "", -1, Text(key))>>)

CheckTopLevel(data) ==
  IF ~Iterable(data) THEN Raised(<<>>)
  ELSE LET keys == Elements(data)
       IN ForEach(LAMBDA i : TopKeyStep(keys[i]), 1, Len(keys))

\* install = data.get("install", {}) or {} and the checks on it
InstallKeyErrors(install) ==
  LET F(i) == IF install.k[i] \notin AllowedInstall
              THEN Ran(<<Msg("install", "unknown key", -1, "", -1, install.k[i])>>)
              ELSE Ran(<<>>)
  IN ForEach(F, 1, Len(install.k)).errs

\* CheckInstall reading the section with data.get("install"), no default
CheckInstallNoDefault(data) ==
  IF data.t # "map" THEN Raised(<<>>)
  ELSE LET install == Get(data, "install", Null)
       IN IF install.t # "map"
          THEN Ran(<<Msg("install", "must be a mapping", -1, "", -1, "")>>)
          ELSE Ran(InstallKeyErrors(install)
                   \o IF HasKey(install, "cpu_only")
                         /\ Lookup(install, "cpu_only").t # "bool"
                      THEN <<Msg("install", "cpu_only must be boolean", -1, "", -1, "")>>
                      ELSE <<>>)

CheckInstall(data) ==
  IF data.t # "map" THEN Raised(<<>>)
  ELSE LET install == OrElse(Get(data, "install", EmptyMap), EmptyMap)
       IN IF install.t # "map"
          THEN Ran(<<Msg("install", "must be a mapping", -1, "", -1, "")>>)
          ELSE Ran(InstallKeyErrors(install)
                   \o IF HasKey(install, "cpu_only")
                         /\ Lookup(install, "cpu_only").t # "bool"
                      THEN <<Msg("install", "cpu_only must be boolean", -1, "", -1, "")>>
                      ELSE <<>>)

\* GlobalModelItemErrors with the conflict test nested under the
\* missing-content branch, where it can never fire
GlobalModelItemErrorsNoConflict(cat, idx, item) ==
  IF item.t = "str" THEN <<>>
  ELSE IF item.t = "map"
  THEN IF ~\E key \in ContentKeys \cup {"ref"} : HasKey(item, key)
       THEN <<Msg("models", "must have urn, url, id or ref", -1, cat, idx, "")>>
       ELSE <<>>
  ELSE <<Msg("models", "must be str or mapping", -1, cat, idx, "")>>

\* The checks on one element models.<cat>[idx] of a global model list
GlobalModelItemErrors(cat, idx, item) ==
  IF item.t = "str" THEN <<>>
  ELSE IF item.t = "map"
  THEN (IF ~\E key \in ContentKeys \cup {"ref"} : HasKey(item, key)
        THEN <<Msg("models", "must have urn, url, id or ref", -1, cat, idx, "")>>
        ELSE <<>>)
       \o (IF HasKey(item, "ref") /\ \E key \in ContentKeys : HasKey(item, key)
           THEN <<Msg("models", "cannot have both ref and content", -1, cat, idx, "")>>
           ELSE <<>>)
  ELSE <<Msg("models", "must be str or mapping", -1, cat, idx, "")>>

\* One entry k: v of the global models mapping: the reserved keys are
\* skipped, any other value must be a list and each element is checked.
GlobalCategoryErrors(cat, val) ==
  IF cat \in ReservedModelKeys THEN <<>>
  ELSE IF val.t # "list"
  THEN <<Msg("models", "must be a list", -1, cat, -1, "")>>
  ELSE ForEach(LAMBDA i : Ran(GlobalModelItemErrors(cat, i - 1, val.v[i])),
               1, Len(val.v)).errs

\* models = data.get("models", {}) or {} and the checks on it
CheckModels(data) ==
  LET models == OrElse(Get(data, "models", EmptyMap), EmptyMap)
  IN IF models.t # "map"
     THEN Ran(<<Msg("models", "must be a mapping", -1, "", -1, "")>>)
     ELSE ForEach(LAMBDA i : Ran(GlobalCategoryErrors(models.k[i], models.v[i])),
                  1, Len(models.k))

\* GlobalNodeErrors requiring url of every global element
GlobalNodeErrorsUrlOnly(idx, node) ==
  IF node.t # "map"
  THEN <<Msg("custom_nodes", "must be mapping", -1, "", idx, "")>>
  ELSE IF ~HasKey(node, "url")
  THEN <<Msg("custom_nodes", "missing url or id", -1, "", idx, "")>>
  ELSE <<>>

\* The checks on one element custom_nodes[idx] of the global list
GlobalNodeErrors(idx, node) ==
  IF node.t # "map"
  THEN <<Msg("custom_nodes", "must be mapping", -1, "", idx, "")>>
  ELSE IF ~HasKey(node, "url") /\ ~HasKey(node, "id")
  THEN <<Msg("custom_nodes", "missing url or id", -1, "", idx, "")>>
  ELSE <<>>

\* custom_nodes = data.get("custom_nodes", []) and the checks on it
CheckCustomNodes(data) ==
  LET custom_nodes == Get(data, "custom_nodes", EmptyList)
  IN IF Truthy(custom_nodes) /\ custom_nodes.t # "list"
     THEN Ran(<<Msg("custom_nodes", "must be a list", -1, "", -1, "")>>)
     ELSE LET nodes == OrElse(custom_nodes, EmptyList).v
          IN ForEach(LAMBDA i : Ran(GlobalNodeErrors(i - 1, nodes[i])), 1, Len(nodes))

\* The checks on one element workflows[wf].models.<cat>[idx]
WorkflowModelItemErrors(wf, cat, idx, item) ==
  IF item.t = "str" THEN <<>>
  ELSE IF item.t = "map"
  THEN (IF ~\E key \in ContentKeys \cup {"ref"} : HasKey(item, key)
        THEN <<Msg("workflows.models", "must have urn, url, id or ref", wf, cat, idx, "")>>
        ELSE <<>>)
       \o (IF HasKey(item, "ref") /\ \E key \in ContentKeys : HasKey(item, key)
           THEN <<Msg("workflows.models", "cannot have both ref and content", wf, cat, idx, "")>>
           ELSE <<>>)
  ELSE <<Msg("workflows.models", "must be str or mapping", wf, cat, idx, "")>>

\* One entry k: v of a workflow's models mapping (no key is skipped here)
WorkflowCategoryErrors(wf, cat, val) ==
  IF val.t # "list"
  THEN <<Msg("workflows.models", "must be a list", wf, cat, -1, "")>>
  ELSE ForEach(LAMBDA i : Ran(WorkflowModelItemErrors(wf, cat, i - 1, val.v[i])),
               1, Len(val.v)).errs

\* wf_models = wf.get("models", {}) and the checks on it.  A falsy value
\* that is not a mapping (None, [], 0, "", False) passes the type test and
\* reaches wf_models.items(), which raises AttributeError.
WorkflowModelsCheck(wf, w) ==
  LET wf_models == Get(w, "models", EmptyMap)
  IN IF Truthy(wf_models) /\ wf_models.t # "map"
     THEN Ran(<<Msg("workflows.models", "must be a mapping", wf, "", -1, "")>>)
     ELSE IF wf_models.t # "map" THEN Raised(<<>>)
     ELSE ForEach(LAMBDA i : Ran(WorkflowCategoryErrors(wf, wf_models.k[i], wf_models.v[i])),
                  1, Len(wf_models.k))

\* WorkflowNodeErrors with the global rule's id in the presence test
WorkflowNodeErrorsAcceptsId(wf, idx, node) ==
  IF node.t # "map"
  THEN <<Msg("workflows.custom_nodes", "must be mapping", wf, "", idx, "")>>
  ELSE (IF ~HasKey(node, "url") /\ ~HasKey(node, "ref") /\ ~HasKey(node, "id")
        THEN <<Msg("workflows.custom_nodes", "missing url or ref", wf, "", idx, "")>>
        ELSE <<>>)
       \o (IF HasKey(node, "ref") /\ HasKey(node, "url")
           THEN <<Msg("workflows.custom_nodes", "cannot have both ref and url", wf, "", idx, "")>>
           ELSE <<>>)

\* The checks on one element workflows[wf].custom_nodes[idx]
WorkflowNodeErrors(wf, idx, node) ==
  IF node.t # "map"
  THEN <<Msg("workflows.custom_nodes", "must be mapping", wf, "", idx, "")>>
  ELSE (IF ~HasKey(node, "url") /\ ~HasKey(node, "ref")
        THEN <<Msg("workflows.custom_nodes", "missing url or ref", wf, "", idx, "")>>
        ELSE <<>>)
       \o (IF HasKey(node, "ref") /\ HasKey(node, "url")
           THEN <<Msg("workflows.custom_nodes", "cannot have both ref and url", wf, "", idx, "")>>
           ELSE <<>>)

\* WorkflowNodesCheck passing over the elements that are not mappings
WorkflowNodesCheckSkipsNonMappings(wf, w) ==
  LET wf_nodes == Get(w, "custom_nodes", EmptyList)
  IN IF Truthy(wf_nodes) /\ wf_nodes.t # "list"
     THEN Ran(<<Msg("workflows.custom_nodes", "must be a list", wf, "", -1, "")>>)
     ELSE LET nodes == OrElse(wf_nodes, EmptyList).v
          IN ForEach(LAMBDA i : Ran(IF nodes[i].t # "map" THEN <<>>
                                    ELSE WorkflowNodeErrors(wf, i - 1, nodes[i])),
                     1, Len(nodes))

\* wf_nodes = wf.get("custom_nodes", []) and the checks on it
WorkflowNodesCheck(wf, w) ==
  LET wf_nodes == Get(w, "custom_nodes", EmptyList)
  IN IF Truthy(wf_nodes) /\ wf_nodes.t # "list"
     THEN Ran(<<Msg("workflows.custom_nodes", "must be a list", wf, "", -1, "")>>)
     ELSE LET nodes == OrElse(wf_nodes, EmptyList).v
          IN ForEach(LAMBDA i : Ran(WorkflowNodeErrors(wf, i - 1, nodes[i])), 1, Len(nodes))

\* The body of the loop over workflows, for workflows[wf] = w
WorkflowStep(wf, w) ==
  IF w.t # "map"
  THEN Ran(<<Msg("workflows", "must be mapping", wf, "", -1, "")>>)
  ELSE Then(Ran(IF ~HasKey(w, "name")
                THEN <<Msg("workflows", "missing name", wf, "", -1, "")>>
                ELSE <<>>),
            Then(WorkflowModelsCheck(wf, w), WorkflowNodesCheck(wf, w)))

\* workflows = data.get("workflows", []) and the checks on it
CheckWorkflows(data) ==
  LET workflows == Get(data, "workflows", EmptyList)
  IN IF Truthy(workflows) /\ workflows.t # "list"
     THEN Ran(<<Msg("workflows", "must be a list", -1, "", -1, "")>>)
     ELSE LET wfs == OrElse(workflows, EmptyList).v
          IN ForEach(LAMBDA i : WorkflowStep(i - 1, wfs[i]), 1, Len(wfs))

\* ------------------------------------------------ cross-reference check
\* The id values a list of entries makes available: item["id"] of every
\* mapping item that has the key.
IdsOf(lst) ==
  LET items == Elements(lst)
  IN {Lookup(items[i], "id") : i \in {j \in 1..Len(items) : HasKey(items[j], "id")}}

\* Building a set of ids from lst raises when lst is not iterable or when an
\* id is unhashable.
IdsRaise(lst) == ~Iterable(lst) \/ \E id \in IdsOf(lst) : ~Hashable(id)

\* cat in available_ids: the categories of the global models mapping,
\* without the reserved keys
Indexed(models, cat) == HasKey(models, cat) /\ cat \notin ReservedModelKeys

\* AvailableIds as one pool of ids for all categories
AvailableIdsAllCategories(models, cat) ==
  UNION {IdsOf(OrElse(models.v[i], EmptyList)) :
           i \in {j \in 1..Len(models.k) : models.k[j] \notin ReservedModelKeys}}

\* available_ids[cat]
AvailableIds(models, cat) == IdsOf(OrElse(Lookup(models, cat), EmptyList))

\* The loop that builds available_ids raises on a category whose value is
\* truthy and not iterable, or that holds an unhashable id.
IndexRaises(models) ==
  \E i \in 1..Len(models.k) :
    /\ models.k[i] \notin ReservedModelKeys
    /\ IdsRaise(OrElse(models.v[i], EmptyList))

\* ModelRefStep that looks a ref up only when its category exists globally
ModelRefStepKnownCategoryOnly(models, wf, cat, idx, item) ==
  IF ~HasKey(item, "ref") THEN Ran(<<>>)
  ELSE LET ref_id == Lookup(item, "ref")
       IN IF ~Indexed(models, cat) THEN Ran(<<>>)
          ELSE IF ~Hashable(ref_id) THEN Raised(<<>>)
          ELSE IF ref_id \notin AvailableIds(models, cat)
          THEN Ran(<<Msg("workflows.models", "ref not found", wf, cat, idx,
                         Text(ref_id))>>)
          ELSE Ran(<<>>)

\* The check of workflows[wf].models.<cat>[idx] = item
ModelRefStep(models, wf, cat, idx, item) ==
  IF ~HasKey(item, "ref") THEN Ran(<<>>)
  ELSE LET ref_id == Lookup(item, "ref")
           notFound == Ran(<<Msg("workflows.models", "ref not found", wf, cat, idx,
                                 Text(ref_id))>>)
       IN IF ~Indexed(models, cat) THEN notFound
          ELSE IF ~Hashable(ref_id) THEN Raised(<<>>)
          ELSE IF ref_id \notin AvailableIds(models, cat) THEN notFound
          ELSE Ran(<<>>)

\* for item_idx, item in enumerate(lst or [])
ModelRefList(models, wf, cat, lst) ==
  LET l == OrElse(lst, EmptyList)
      items == Elements(l)
  IN IF ~Iterable(l) THEN Raised(<<>>)
     ELSE ForEach(LAMBDA i : ModelRefStep(models, wf, cat, i - 1, items[i]),
                  1, Len(items))

\* The check of workflows[wf].custom_nodes[idx] = node
NodeRefStep(nodeIds, wf, idx, node) ==
  IF ~HasKey(node, "ref") THEN Ran(<<>>)
  ELSE LET ref_id == Lookup(node, "ref")
       IN IF ~Hashable(ref_id) THEN Raised(<<>>)
          ELSE IF ref_id \notin nodeIds
          THEN Ran(<<Msg("workflows.custom_nodes", "ref not found", wf, "", idx,
                         Text(ref_id))>>)
          ELSE Ran(<<>>)

\* The body of the loop over workflows, for workflows[wf] = w
WorkflowRefs(models, nodeIds, wf, w) ==
  IF w.t # "map" THEN Ran(<<>>)
  ELSE LET wf_models == OrElse(Get(w, "models", EmptyMap), EmptyMap)
           wf_nodes == OrElse(Get(w, "custom_nodes", EmptyList), EmptyList)
           nodes == Elements(wf_nodes)
       IN Then(IF wf_models.t # "map" THEN Raised(<<>>)
               ELSE ForEach(LAMBDA i : ModelRefList(models, wf, wf_models.k[i],
                                                    wf_models.v[i]),
                            1, Len(wf_models.k)),
               IF ~Iterable(wf_nodes) THEN Raised(<<>>)
               ELSE ForEach(LAMBDA i : NodeRefStep(nodeIds, wf, i - 1, nodes[i]),
                            1, Len(nodes)))

CheckRefs(data) ==
  LET models == OrElse(Get(data, "models", EmptyMap), EmptyMap)
      custom_nodes == OrElse(Get(data, "custom_nodes", EmptyList), EmptyList)
      workflows == OrElse(Get(data, "workflows", EmptyList), EmptyList)
      wfs == Elements(workflows)
  IN IF models.t # "map" THEN Raised(<<>>)
     ELSE IF IndexRaises(models) THEN Raised(<<>>)
     ELSE IF IdsRaise(custom_nodes) THEN Raised(<<>>)
     ELSE IF ~Iterable(workflows) THEN Raised(<<>>)
     ELSE ForEach(LAMBDA i : WorkflowRefs(models, IdsOf(custom_nodes), i - 1, wfs[i]),
                  1, Len(wfs))

\* ------------------------------------------------------------- strings
Least(S) == CHOOSE x \in S : \A y \in S : x <= y

\* sep.join(parts)
RECURSIVE Join(_, _)
Join(parts, sep) ==
  IF parts = <<>> THEN ""
  ELSE IF Len(parts) = 1 THEN parts[1]
  ELSE parts[1] \o sep \o Join(Tail(parts), sep)

\* s.split(sep), for a separator of one character
RECURSIVE Split(_, _)
Split(s, sep) ==
  LET at == {i \in 1..Len(s) : SubSeq(s, i, i) = sep}
  IN IF at = {} THEN <<s>>
     ELSE <<SubSeq(s, 1, Least(at) - 1)>> \o Split(SubSeq(s, Least(at) + 1, Len(s)), sep)

Whitespace == {" ", "\t", "\n"}

\* s.strip()
Strip(s) ==
  LET solid == {i \in 1..Len(s) : SubSeq(s, i, i) \notin Whitespace}
  IN IF solid = {} THEN ""
     ELSE SubSeq(s, Least(solid), CHOOSE i \in solid : \A j \in solid : j <= i)

\* s.startswith(p)
StartsWith(s, p) == Len(s) >= Len(p) /\ SubSeq(s, 1, Len(p)) = p

LowerCase == "abcdefghijklmnopqrstuvwxyz"
UpperCase == "ABCDEFGHIJKLMNOPQRSTUVWXYZ"

\* s.upper()
Upper(s) ==
  LET up(c) == IF \E i \in 1..26 : SubSeq(LowerCase, i, i) = c
               THEN LET i == CHOOSE i \in 1..26 : SubSeq(LowerCase, i, i) = c
                    IN SubSeq(UpperCase, i, i)
               ELSE c
  IN Join([i \in 1..Len(s) |-> up(SubSeq(s, i, i))], "")

\* The concatenation of a sequence of sequences
RECURSIVE Flatten(_)
Flatten(seqs) == IF seqs = <<>> THEN <<>> ELSE Head(seqs) \o Flatten(Tail(seqs))

\* ----------------------------------------------------------- the resolver
\* The YAML processing code of the installer.  It prints NAME=value lines
\* on stdout, which the installer's shell evaluates, and notes on stderr.
\* One printed line: the stream, the name before the separator, the value,
\* and for a reference warning the category.
Line(stream, name, value, cat) ==
  [stream |-> stream, name |-> name, value |-> value, cat |-> cat]

\* export_var(name, value): nothing for None, else NAME=value, where the
\* value is str(value) as the shell reads it back from its quoted form
export_var(name, value) ==
  IF value.t = "null" THEN <<>> ELSE <<Line("out", name, Text(value), "")>>

\* item.get('urn') or item.get('url') or item.get('id')
UrnUrlOrId(item) ==
  OrElse(Get(item, "urn", Null), OrElse(Get(item, "url", Null), Get(item, "id", Null)))

\* The body of the loop of extract_ids: what one item adds to out
ExtractItem(item) ==
  IF item.t = "map"
  THEN LET val == IF HasKey(item, "ref")
                  THEN Str("REF:" \o Text(Lookup(item, "ref")))
                  ELSE UrnUrlOrId(item)
       IN IF Truthy(val) THEN <<Text(val)>> ELSE <<>>
  ELSE IF Truthy(item) THEN <<Text(item)>> ELSE <<>>

\* extract_ids(lst), for lst a list or None: the comma-joined text of the
\* items, None when there is none
extract_ids(lst) ==
  IF ~Truthy(lst) THEN Null
  ELSE LET out == Flatten([i \in 1..Len(lst.v) |-> ExtractItem(lst.v[i])])
       IN IF out # <<>> THEN Str(Join(out, ",")) ELSE Null

\* The search of resolve_refs: the locator of the first mapping of
\* global_cat whose id equals ref_id and that carries a locator
FoundIn(global_cat, ref_id) ==
  LET items == Elements(global_cat)
      hits == {i \in 1..Len(items) :
                 /\ items[i].t = "map"
                 /\ Get(items[i], "id", Null) = Str(ref_id)
                 /\ Truthy(UrnUrlOrId(items[i]))}
  IN IF hits = {} THEN <<>> ELSE <<Text(UrnUrlOrId(items[Least(hits)]))>>

\* The outcome of a stretch of resolve_refs: what it appended to resolved,
\* what it printed, and whether it ran through
Resolved(resolved, errs, ok) == [resolved |-> resolved, errs |-> errs, ok |-> ok]

\* The body of the loop of resolve_refs, for one piece of the split text
ResolveStep(category, piece, global_models) ==
  LET item_str == Strip(piece)
  IN IF item_str = "" THEN Resolved(<<>>, <<>>, TRUE)
     ELSE IF StartsWith(item_str, "REF:")
     THEN LET ref_id == SubSeq(item_str, 5, Len(item_str))
              global_cat == Get(global_models, category, EmptyList)
          IN IF ~Iterable(global_cat) THEN Resolved(<<>>, <<>>, FALSE)
             ELSE LET found == FoundIn(global_cat, ref_id)
                  IN Resolved(found,
                              IF found = <<>>
                              THEN <<Line("err", "WARNING_REF_NOT_FOUND", ref_id, category)>>
                              ELSE <<>>,
                              TRUE)
     ELSE Resolved(<<item_str>>, <<>>, TRUE)

RECURSIVE ResolveFrom(_, _, _)
ResolveFrom(category, pieces, global_models) ==
  IF pieces = <<>> THEN Resolved(<<>>, <<>>, TRUE)
  ELSE LET h == ResolveStep(category, Head(pieces), global_models)
       IN IF ~h.ok THEN h
          ELSE LET t == ResolveFrom(category, Tail(pieces), global_models)
               IN Resolved(h.resolved \o t.resolved, h.errs \o t.errs, t.ok)

\* resolve_refs(category, items, global_models), for items a text or None
resolve_refs(category, items, global_models) ==
  ResolveFrom(category, Split(IF Truthy(items) THEN items.s ELSE "", ","), global_models)

\* Lines 75-83: the install section and the two directories of models
ResolverHead(data) ==
  IF data.t # "map" THEN Raised(<<>>)
  ELSE LET install == Get(data, "install", EmptyMap)
           models == Get(data, "models", EmptyMap)
       IN IF install.t # "map" THEN Raised(<<>>)
          ELSE Then(Ran(export_var("COMFY_DIR", Get(install, "comfy_dir", Null))
                        \o export_var("CPU_ONLY",
                                      Num(IF Truthy(Get(install, "cpu_only", Bool("True")))
                                          THEN "1" ELSE "0"))),
                    IF models.t # "map" THEN Raised(<<>>)
                    ELSE Ran(export_var("MODEL_DEST_DIR", Get(models, "dest_dir", Null))
                             \o export_var("MODELS_SOURCE_DIR",
                                           Get(models, "source_dir", Null))))

\* What one custom node of the selected workflow adds to workflow_nodes:
\* its url, or for a reference the marked id that is resolved at the end
WorkflowNodeItem(node) ==
  IF node.t # "map" THEN <<>>
  ELSE IF Truthy(Get(node, "url", Null)) THEN <<Lookup(node, "url")>>
  ELSE IF Truthy(Get(node, "ref", Null))
  THEN <<Str("REF:" \o Text(Lookup(node, "ref")))>>
  ELSE <<>>

WorkflowNodeItems(wf_nodes) ==
  LET nodes == Elements(wf_nodes)
  IN Flatten([i \in 1..Len(nodes) |-> WorkflowNodeItem(nodes[i])])

\* The outcome of the workflow selection: workflow_models, workflow_nodes,
\* what it printed, and whether it ran through
Selected(models, nodes, errs, ok) ==
  [models |-> models, nodes |-> nodes, errs |-> errs, ok |-> ok]

\* SelectWorkflow taking the models and nodes of every workflow entry,
\* whatever its name (the last one's models stay)
SelectWorkflowAnyName(data, selected_workflow) ==
  IF selected_workflow = "" THEN Selected(EmptyMap, <<>>, <<>>, TRUE)
  ELSE LET wfs == Elements(Get(data, "workflows", EmptyList))
           maps == SelectSeq(wfs, LAMBDA wf : wf.t = "map")
       IN IF maps = <<>>
          THEN Selected(EmptyMap, <<>>,
                        <<Line("err", "WORKFLOW_NOT_FOUND", selected_workflow, "")>>, TRUE)
          ELSE Selected(Get(maps[Len(maps)], "models", EmptyMap),
                        Flatten([i \in 1..Len(maps) |->
                                   WorkflowNodeItems(Get(maps[i], "custom_nodes",
                                                         EmptyList))]),
                        <<Line("err", "SELECTED_WORKFLOW", selected_workflow, "")>>, TRUE)

\* The workflow selection: the first workflow entry whose name is the
\* selector gives workflow_models and workflow_nodes; without one the
\* for-else prints the not-found warning; an empty selector selects nothing.
SelectWorkflow(data, selected_workflow) ==
  IF selected_workflow = "" THEN Selected(EmptyMap, <<>>, <<>>, TRUE)
  ELSE LET workflows == Get(data, "workflows", EmptyList)
           wfs == Elements(workflows)
           hits == {i \in 1..Len(wfs) :
                      /\ wfs[i].t = "map"
                      /\ Get(wfs[i], "name", Null) = Str(selected_workflow)}
       IN IF ~Iterable(workflows) THEN Selected(EmptyMap, <<>>, <<>>, FALSE)
          ELSE IF hits = {}
          THEN Selected(EmptyMap, <<>>,
                        <<Line("err", "WORKFLOW_NOT_FOUND", selected_workflow, "")>>, TRUE)
          ELSE LET wf == wfs[Least(hits)]
                   wf_models == Get(wf, "models", EmptyMap)
                   wf_nodes == Get(wf, "custom_nodes", EmptyList)
                   note == <<Line("err", "SELECTED_WORKFLOW", selected_workflow, "")>>
               IN IF wf_models.t # "map" \/ ~Iterable(wf_nodes)
                  THEN Selected(EmptyMap, <<>>, note, FALSE)
                  ELSE Selected(wf_models, WorkflowNodeItems(wf_nodes), note, TRUE)

\* global_models_by_cat: every category of models but the reserved keys,
\* with lst or []
GlobalModelsByCat(models) ==
  LET cats == SelectSeq([i \in 1..Len(models.k) |-> i],
                        LAMBDA i : models.k[i] \notin ReservedModelKeys)
  IN Map([j \in 1..Len(cats) |-> models.k[cats[j]]],
         [j \in 1..Len(cats) |-> OrElse(models.v[cats[j]], EmptyList)])

\* a + b succeeds on two lists, two strings or two numbers
CanAdd(a, b) ==
  \/ a.t = "list" /\ b.t = "list"
  \/ a.t = "str" /\ b.t = "str"
  \/ a.t \in {"int", "bool"} /\ b.t \in {"int", "bool"}

\* a + b; of a sum of numbers only the type is read afterwards
Plus(a, b) ==
  CASE a.t = "list" -> List(a.v \o b.v)
    [] a.t = "str" -> Str(a.s \o b.s)
    [] OTHER -> Num("sum")

\* AllModels with the workflow's list taking the place of the global list of
\* the same category
AllModelsOverride(models, workflow_models) ==
  LET global == GlobalModelsByCat(models)
      fresh == SelectSeq([i \in 1..Len(workflow_models.k) |-> i],
                         LAMBDA i : ~HasKey(global, workflow_models.k[i]))
      merged(i) == IF HasKey(workflow_models, global.k[i])
                   THEN OrElse(Lookup(workflow_models, global.k[i]), EmptyList)
                   ELSE global.v[i]
  IN Map(global.k \o [j \in 1..Len(fresh) |-> workflow_models.k[fresh[j]]],
         [i \in 1..Len(global.k) |-> merged(i)]
           \o [j \in 1..Len(fresh) |-> OrElse(workflow_models.v[fresh[j]], EmptyList)])

\* Lines 148-157: all_models, the global categories in order, each with the
\* workflow's list of the same category added, then the categories that
\* only the workflow has
AllModels(models, workflow_models) ==
  LET global == GlobalModelsByCat(models)
      fresh == SelectSeq([i \in 1..Len(workflow_models.k) |-> i],
                         LAMBDA i : ~HasKey(global, workflow_models.k[i]))
      merged(i) == IF HasKey(workflow_models, global.k[i])
                   THEN Plus(global.v[i],
                             OrElse(Lookup(workflow_models, global.k[i]), EmptyList))
                   ELSE global.v[i]
  IN Map(global.k \o [j \in 1..Len(fresh) |-> workflow_models.k[fresh[j]]],
         [i \in 1..Len(global.k) |-> merged(i)]
           \o [j \in 1..Len(fresh) |-> OrElse(workflow_models.v[fresh[j]], EmptyList)])

\* The merge raises TypeError when a global value and the workflow's value
\* of the same category cannot be added.
MergeRaises(models, workflow_models) ==
  LET global == GlobalModelsByCat(models)
  IN \E i \in 1..Len(global.k) :
       /\ HasKey(workflow_models, global.k[i])
       /\ ~CanAdd(global.v[i], OrElse(Lookup(workflow_models, global.k[i]), EmptyList))

\* ExportCategory without the search of the global list: a reference is
\* dropped silently
ExportCategorySilent(cat, lst, global_models) ==
  LET ids == extract_ids(IF lst.t = "list" THEN lst ELSE Null)
      pieces == Split(IF Truthy(ids) THEN ids.s ELSE "", ",")
      kept == SelectSeq([i \in 1..Len(pieces) |-> Strip(pieces[i])],
                        LAMBDA s : s # "" /\ ~StartsWith(s, "REF:"))
  IN Ran(IF kept # <<>>
         THEN export_var("CIVITAI_" \o Upper(cat), Str(Join(kept, ",")))
         ELSE <<>>)

\* Lines 166-170: the body of the export loop for one category of all_models
ExportCategory(cat, lst, global_models) ==
  LET ids == extract_ids(IF lst.t = "list" THEN lst ELSE Null)
      r == resolve_refs(cat, ids, global_models)
  IN [errs |-> r.errs
                 \o IF r.ok /\ r.resolved # <<>>
                    THEN export_var("CIVITAI_" \o Upper(cat), Str(Join(r.resolved, ",")))
                    ELSE <<>>,
      ok |-> r.ok]

\* Lines 147-170: merge and export of the model categories
ExportModels(models, workflow_models) ==
  IF MergeRaises(models, workflow_models) THEN Raised(<<>>)
  ELSE LET all_models == AllModels(models, workflow_models)
           global_models_by_cat == GlobalModelsByCat(models)
       IN ForEach(LAMBDA i : ExportCategory(all_models.k[i], all_models.v[i],
                                            global_models_by_cat),
                  1, Len(all_models.k))

\* global_custom_nodes[ref_id]: of the global custom nodes that carry an id,
\* the last one with this id
GlobalCustomNode(custom_nodes, ref_id) ==
  LET nodes == Elements(custom_nodes)
      hits == {i \in 1..Len(nodes) :
                 /\ nodes[i].t = "map"
                 /\ Truthy(Get(nodes[i], "id", Null))
                 /\ Get(nodes[i], "id", Null) = Str(ref_id)}
  IN IF hits = {} THEN <<>> ELSE <<nodes[CHOOSE i \in hits : \A j \in hits : j <= i]>>

\* No warning for a custom-node reference that names no global node
NodeRefWarningNone(ref_id) == <<>>

\* The warning for a custom-node reference that names no global node
NodeRefWarning(ref_id) == <<Line("err", "WARNING_REF_NOT_FOUND", ref_id, "custom_nodes")>>

\* The resolution of one item of workflow_nodes: a marked reference gives
\* the url of the global node of that id, nothing when that node has no url,
\* nothing and a warning when there is no such node; a url stays.
ResolveNode(custom_nodes, node_url) ==
  IF StartsWith(node_url, "REF:")
  THEN LET ref_id == SubSeq(node_url, 5, Len(node_url))
           node == GlobalCustomNode(custom_nodes, ref_id)
       IN IF node = <<>> THEN Resolved(<<>>, NodeRefWarning(ref_id), TRUE)
          ELSE IF Truthy(Get(node[1], "url", Null))
          THEN Resolved(<<Text(Lookup(node[1], "url"))>>, <<>>, TRUE)
          ELSE Resolved(<<>>, <<>>, TRUE)
  ELSE Resolved(<<node_url>>, <<>>, TRUE)

\* ExportNodeUrls keeping one copy of each url
ExportNodeUrlsUnique(data, workflow_nodes) ==
  LET custom_nodes == Get(data, "custom_nodes", EmptyList)
      with_url == SelectSeq(Elements(custom_nodes),
                            LAMBDA node : node.t = "map" /\ Truthy(Get(node, "url", Null)))
      urls == [i \in 1..Len(with_url) |-> Text(Lookup(with_url[i], "url"))]
      r(i) == ResolveNode(custom_nodes, workflow_nodes[i].s)
      all == urls \o Flatten([i \in 1..Len(workflow_nodes) |-> r(i).resolved])
      first == SelectSeq([i \in 1..Len(all) |-> i],
                         LAMBDA i : \A j \in 1..(i - 1) : all[j] # all[i])
  IN IF ~Iterable(custom_nodes) THEN Raised(<<>>)
     ELSE IF \E i \in 1..Len(workflow_nodes) : workflow_nodes[i].t # "str" THEN Raised(<<>>)
     ELSE Ran(Flatten([i \in 1..Len(workflow_nodes) |-> r(i).errs])
              \o export_var("YAML_CUSTOM_NODE_URLS",
                            Str(Join([j \in 1..Len(first) |-> all[first[j]]], " "))))

\* The urls of the global custom nodes, then the resolved workflow_nodes,
\* joined with spaces and exported; an item of workflow_nodes that is not a
\* text raises.
ExportNodeUrls(data, workflow_nodes) ==
  LET custom_nodes == Get(data, "custom_nodes", EmptyList)
      with_url == SelectSeq(Elements(custom_nodes),
                            LAMBDA node : node.t = "map" /\ Truthy(Get(node, "url", Null)))
      urls == [i \in 1..Len(with_url) |-> Text(Lookup(with_url[i], "url"))]
      r(i) == ResolveNode(custom_nodes, workflow_nodes[i].s)
  IN IF ~Iterable(custom_nodes) THEN Raised(<<>>)
     ELSE IF \E i \in 1..Len(workflow_nodes) : workflow_nodes[i].t # "str" THEN Raised(<<>>)
     ELSE Ran(Flatten([i \in 1..Len(workflow_nodes) |-> r(i).errs])
              \o export_var("YAML_CUSTOM_NODE_URLS",
                            Str(Join(urls \o Flatten([i \in 1..Len(workflow_nodes) |->
                                                        r(i).resolved]), " "))))

\* The whole of the processing code, for the loaded data and the value of
\* WORKFLOW ("" when it is unset or empty)
Resolver(data, selected_workflow) ==
  Then(ResolverHead(data),
       LET w == SelectWorkflow(data, selected_workflow)
       IN Then([errs |-> w.errs, ok |-> w.ok],
               Then(ExportModels(Get(data, "models", EmptyMap), w.models),
                    ExportNodeUrls(data, w.nodes))))

\* ------------------------------------------------ the downloader: parsing
\* download_civitai_models.py.  None is the empty sequence and a value v
\* that may be None is <<v>>.

\* sep in s, for a separator of one character
Contains(s, sep) == \E i \in 1..Len(s) : SubSeq(s, i, i) = sep

\* s.split(sep, 1), for a separator of one character that s contains
SplitOnce(s, sep) ==
  LET at == Least({i \in 1..Len(s) : SubSeq(s, i, i) = sep})
  IN <<SubSeq(s, 1, at - 1), SubSeq(s, at + 1, Len(s))>>

\* parse_urn(urn): the components of a URN of six segments, None otherwise
parse_urn(urn) ==
  IF ~StartsWith(urn, "urn:air:") THEN <<>>
  ELSE LET parts == Split(urn, ":")
       IN IF Len(parts) # 6 THEN <<>>
          ELSE IF parts[2] # "air" \/ Strip(parts[6]) = "" THEN <<>>
          ELSE <<[model_type |-> parts[3], category |-> parts[4], platform |-> parts[5],
                  model_id |-> parts[6]]>>

\* is_direct_url(url)
is_direct_url(url) == StartsWith(url, "http://") \/ StartsWith(url, "https://")

\* pathlib.Path(urlparse(url).path).name, for a url without parameters: the
\* last segment of what follows the host, "" when there is none
UrlPathName(url) ==
  LET rest == SubSeq(url, IF StartsWith(url, "https://") THEN 9 ELSE 8, Len(url))
      path == IF Contains(rest, "/") THEN SplitOnce(rest, "/")[2] ELSE ""
      cut == IF Contains(path, "?") THEN SplitOnce(path, "?")[1] ELSE path
      named == SelectSeq(Split(cut, "/"), LAMBDA seg : seg # "")
  IN IF named = <<>> THEN "" ELSE named[Len(named)]

\* get_filename_from_url(url)
get_filename_from_url(url) == IF UrlPathName(url) # "" THEN UrlPathName(url) ELSE "download"

\* dir / name
PathJoin(dir, name) == dir \o "/" \o name

\* get_model_dest_path(models_dir, model_spec, filename)
get_model_dest_path(models_dir, model_spec, filename) ==
  LET parsed == parse_urn(model_spec)
  IN IF parsed # <<>>
     THEN LET category == parsed[1].category
              last == SubSeq(category, Len(category), Len(category))
          IN PathJoin(PathJoin(models_dir, IF last = "s" THEN category ELSE category \o "s"),
                      filename)
     ELSE PathJoin(models_dir, filename)

\* _parse_model_spec(spec): (model_id, version_id) of a URN, of id:version
\* or of a bare id
ParseModelSpec(spec0) ==
  LET spec == Strip(spec0)
      parts == Split(spec, ":")
      civ == {i \in 1..Len(parts) : parts[i] = "civitai"}
  IN IF StartsWith(spec, "urn:air:")
     THEN IF civ = {} \/ Least(civ) = Len(parts)
          THEN [model_id |-> spec, version_id |-> <<>>]
          ELSE LET id_ver == parts[Least(civ) + 1]
               IN IF Contains(id_ver, "@")
                  THEN [model_id |-> SplitOnce(id_ver, "@")[1],
                        version_id |-> <<SplitOnce(id_ver, "@")[2]>>]
                  ELSE [model_id |-> id_ver, version_id |-> <<>>]
     ELSE IF Contains(spec, ":")
     THEN [model_id |-> SplitOnce(spec, ":")[1], version_id |-> <<SplitOnce(spec, ":")[2]>>]
     ELSE [model_id |-> spec, version_id |-> <<>>]

\* ---------------------------------------------------------------- state
VARIABLES
  cmd,         \* what this run is: "validate", the validator script run on
               \* a path; "install", the install run; "resolve", the
               \* processing code run on its own; "comfyctl", comfyctl
               \* validate; "download", the downloader
  source,      \* what is at the config path: "missing", "directory", "unreadable",
               \* "unparsable" or "parsed" (text that YAML parses to doc)
  doc,         \* the document the file holds; never written
  pc,          \* where the validator script is
  data,        \* the script's data
  errors,      \* the script's errors list
  banner,      \* the headline the script printed, "" before it prints
  printed,     \* the violation messages the script printed
  exitStatus,  \* the script's exit status, -1 while it runs
  run,         \* the components the install run has started, in order
  selector,    \* the value of WORKFLOW the resolver read, "" for none
  rpc,         \* the resolver: "off", "done" or "raised"
  stdout,      \* the NAME=value lines the resolver printed
  stderr,      \* the notes and warnings the resolver printed
  ctl,         \* where comfyctl validate is: "off", "start", "waiting", "exited"
  ctlBanner,   \* what comfyctl printed itself, "" for nothing
  ctlStatus,   \* the exit status of comfyctl, -1 while it runs
  fn,          \* the function of the downloader that is run: "off", "main"
               \* or "download_model"
  args,        \* its arguments
  model_entries, \* the entries main collected from them
  catalog,     \* the metadata the platform serves for the model it knows
  fs,          \* the files under the models directory
  dpc,         \* where the downloader is
  entry_no,    \* the index of the entry main is at
  files,       \* the files of the version process_model_entry chose
  file_no,     \* the index of the file it is at, 0 for a direct url
  cur,         \* the url and the destination path of the fetch under way
  requests,    \* the requests made since the start of this run, in order
  last,        \* for each path, how the last step about it ended
  result,      \* how the function ended, "none" while it runs
  pre,         \* the files when this run started
  earlier,     \* how the run before this one on the same directory went:
               \* "none", "success" or "failure"
  processed    \* the entries process_model_entry was called on, in order

vars == <<cmd, source, doc, pc, data, errors, banner, printed, exitStatus, run,
          selector, rpc, stdout, stderr, ctl, ctlBanner, ctlStatus,
          fn, args, model_entries, catalog, fs, dpc, entry_no, files, file_no, cur,
          requests, last, result, pre, earlier, processed>>

resolverVars == <<selector, rpc, stdout, stderr>>

ctlVars == <<ctl, ctlBanner, ctlStatus>>

downloaderVars == <<fn, args, model_entries, catalog, fs, dpc, entry_no, files, file_no,
                    cur, requests, last, result, pre, earlier, processed>>

SourceKinds == {"missing", "directory", "unreadable", "unparsable", "parsed"}

\* An uncaught exception: the interpreter prints a traceback and exits
\* with status 1.
Traceback ==
  /\ pc' = "exited"
  /\ banner' = "traceback"
  /\ exitStatus' = 1

\* sys.exit(status) after printing headline
Exit(headline, status) ==
  /\ pc' = "exited"
  /\ banner' = headline
  /\ exitStatus' = status

\* Lines 21-30: the path test, read_text and yaml.safe_load(...) or {}
Load ==
  /\ pc = "load"
  /\ CASE source \in {"missing", "directory"} ->
            Exit("supply a valid path", 2) /\ UNCHANGED data
       [] source = "unreadable" -> Traceback /\ UNCHANGED data
       [] source = "unparsable" -> Exit("YAML parsing error", 1) /\ UNCHANGED data
       [] source = "parsed" ->
            /\ data' = OrElse(doc, EmptyMap)
            /\ pc' = "top"
            /\ UNCHANGED <<banner, exitStatus>>
  /\ UNCHANGED <<cmd, source, doc, errors, printed, run, resolverVars, ctlVars, downloaderVars>>

\* One stretch of checks: its messages are appended to errors, and the
\* script goes on to the next stretch unless an exception ended it.
Stretch(at, r, next) ==
  /\ pc = at
  /\ errors' = errors \o r.errs
  /\ IF r.ok THEN pc' = next /\ UNCHANGED <<banner, exitStatus>> ELSE Traceback
  /\ UNCHANGED <<cmd, source, doc, data, printed, run, resolverVars, ctlVars, downloaderVars>>

TopLevelKeys == Stretch("top", CheckTopLevel(data), "install")
InstallSection == Stretch("install", CheckInstall(data), "models")
ModelsSection == Stretch("models", CheckModels(data), "custom_nodes")
CustomNodesSection == Stretch("custom_nodes", CheckCustomNodes(data), "workflows")
\* WorkflowsSection with each workflow's references checked right after its
\* structural checks, inside the loop over the workflows
WorkflowsSectionWithRefs ==
  LET workflows == Get(data, "workflows", EmptyList)
      models == OrElse(Get(data, "models", EmptyMap), EmptyMap)
      nodeIds == IdsOf(OrElse(Get(data, "custom_nodes", EmptyList), EmptyList))
      wfs == OrElse(workflows, EmptyList).v
  IN Stretch("workflows",
             IF Truthy(workflows) /\ workflows.t # "list"
             THEN Ran(<<Msg("workflows", "must be a list", -1, "", -1, "")>>)
             ELSE ForEach(LAMBDA i : Then(WorkflowStep(i - 1, wfs[i]),
                                          WorkflowRefs(models, nodeIds, i - 1, wfs[i])),
                          1, Len(wfs)),
             "refs")

WorkflowsSection == Stretch("workflows", CheckWorkflows(data), "refs")
CrossReferences == Stretch("refs", CheckRefs(data), "report")

\* ReportStatus without the sys.exit(1) of the failure branch
ReportStatusAlwaysZero(errs) == 0

\* The exit status the report ends with
ReportStatus(errs) == IF errs # <<>> THEN 1 ELSE 0

\* Lines 199-205
Report ==
  /\ pc = "report"
  /\ IF errors # <<>>
     THEN printed' = errors /\ Exit("validation failed", ReportStatus(errors))
     ELSE printed' = printed /\ Exit("passed validation", ReportStatus(errors))
  /\ UNCHANGED <<cmd, source, doc, data, errors, run, resolverVars, ctlVars, downloaderVars>>

\* ------------------------------------------------------ the resolver run
\* The values WORKFLOW takes: unset or empty, the names the documents give
\* their workflows, and a name no document uses
Selectors == {"", "w", "o", "x"}

\* The lines of one stream among the printed lines
OfStream(lines, stream) == SelectSeq(lines, LAMBDA l : l.stream = stream)

\* One run of the processing code on the file, with WORKFLOW = sel: it
\* loads the file itself (line 68) and raises when the file cannot be read
\* or parsed.
RunResolver(sel) ==
  /\ selector' = sel
  /\ IF source = "parsed"
     THEN LET r == Resolver(OrElse(doc, EmptyMap), sel)
          IN /\ stdout' = OfStream(r.errs, "out")
             /\ stderr' = OfStream(r.errs, "err")
             /\ rpc' = IF r.ok THEN "done" ELSE "raised"
     ELSE /\ rpc' = "raised"
          /\ UNCHANGED <<stdout, stderr>>

\* The processing code run on its own on a config file, as
\* run_yaml_processor runs it: no validator goes first.
RunYamlProcessor ==
  /\ cmd = "resolve"
  /\ rpc = "off"
  /\ \E sel \in Selectors : RunResolver(sel)
  /\ UNCHANGED <<cmd, source, doc, pc, data, errors, banner, printed, exitStatus, run,
                 ctlVars, downloaderVars>>

\* ------------------------------------------------------ the install run
\* comfyctl install hands the run to the installer script, which runs the
\* validator first and goes on to the resolver, then to the download step,
\* only when the validator ended with status 0.
GateOpen(status) == status = 0

StartResolver ==
  /\ cmd = "install"
  /\ pc = "exited"
  /\ run = <<"validator">>
  /\ GateOpen(exitStatus)
  /\ run' = Append(run, "resolver")
  /\ \E sel \in Selectors : RunResolver(sel)
  /\ UNCHANGED <<cmd, source, doc, pc, data, errors, banner, printed, exitStatus,
                 ctlVars, downloaderVars>>

StartDownload ==
  /\ cmd = "install"
  /\ run = <<"validator", "resolver">>
  /\ run' = Append(run, "download")
  /\ UNCHANGED <<cmd, source, doc, pc, data, errors, banner, printed, exitStatus,
                 resolverVars, ctlVars, downloaderVars>>

StopInstall ==
  /\ cmd = "install"
  /\ pc = "exited"
  /\ run = <<"validator">>
  /\ ~GateOpen(exitStatus)
  /\ run' = Append(run, "stopped")
  /\ UNCHANGED <<cmd, source, doc, pc, data, errors, banner, printed, exitStatus,
                 resolverVars, ctlVars, downloaderVars>>

\* ---------------------------------------------------- comfyctl validate
\* run_validate, lines 48-56: without a file at the path it prints that
\* the config file was not found and exits with 1; else it runs the
\* validator script on the path and waits for it.
RunValidate ==
  /\ cmd = "comfyctl"
  /\ ctl = "start"
  /\ IF source = "missing"
     THEN /\ ctl' = "exited"
          /\ ctlBanner' = "Config file not found"
          /\ ctlStatus' = 1
          /\ UNCHANGED <<pc, run>>
     ELSE /\ ctl' = "waiting"
          /\ pc' = "load"
          /\ run' = <<"validator">>
          /\ UNCHANGED <<ctlBanner, ctlStatus>>
  /\ UNCHANGED <<cmd, source, doc, data, errors, banner, printed, exitStatus,
                 resolverVars, downloaderVars>>

\* run_validate ending with status 0 whatever the validator returned
ValidateExitZero ==
  /\ cmd = "comfyctl" /\ ctl = "waiting" /\ pc = "exited"
  /\ ctl' = "exited" /\ ctlStatus' = 0
  /\ UNCHANGED <<cmd, source, doc, pc, data, errors, banner, printed, exitStatus, run,
                 ctlBanner, resolverVars, downloaderVars>>

\* run_validate, lines 58-64: the output of the validator is passed on and
\* its return code is the exit status.
ValidateExit ==
  /\ cmd = "comfyctl"
  /\ ctl = "waiting"
  /\ pc = "exited"
  /\ ctl' = "exited"
  /\ ctlStatus' = exitStatus
  /\ UNCHANGED <<cmd, source, doc, pc, data, errors, banner, printed, exitStatus, run,
                 ctlBanner, resolverVars, downloaderVars>>

Next ==
  \/ RunValidate
  \/ ValidateExit
  \/ Load
  \/ TopLevelKeys
  \/ InstallSection
  \/ ModelsSection
  \/ CustomNodesSection
  \/ WorkflowsSection
  \/ CrossReferences
  \/ Report
  \/ RunYamlProcessor
  \/ StartResolver
  \/ StartDownload
  \/ StopInstall

\* -------------------------------------------------------- the downloader
\* download_civitai_models.py is a program of its own: main with its
\* arguments, or download_model called on one model spec.  The platform and
\* the disk decide how each request and each write ends.

\* s.lower()
Lower(s) ==
  LET low(c) == IF \E n \in 1..26 : SubSeq(UpperCase, n, n) = c
                THEN LET n == CHOOSE n \in 1..26 : SubSeq(UpperCase, n, n) = c
                     IN SubSeq(LowerCase, n, n)
                ELSE c
  IN Join([n \in 1..Len(s) |-> low(SubSeq(s, n, n))], "")

ExplicitCategories ==
  <<"checkpoints", "loras", "embeddings", "vae", "controlnets", "upscalers">>

ReservedEnvKeys == {"CIVITAI_API_KEY", "CIVITAI_MODEL_DIR", "CIVITAI_DOWNLOAD_THREADS"}

\* The entries of one comma-separated value: its stripped, non-empty items,
\* each with the directory of the category
ItemsIn(models_str, dest_dir) ==
  LET pieces == Split(models_str, ",")
      items == SelectSeq([n \in 1..Len(pieces) |-> Strip(pieces[n])], LAMBDA x : x # "")
  IN [n \in 1..Len(items) |-> [item |-> items[n], dest_dir |-> dest_dir]]

\* get_model_entries_from_args(args): the items of the explicit categories
\* in their fixed order, then those of the other CIVITAI_* variables of the
\* environment (from_env is always true)
get_model_entries_from_args(a) ==
  LET explicit(c) ==
        IF Strip(a.models[c]) = "" THEN <<>>
        ELSE ItemsIn(a.models[c], PathJoin(a.dest_dir, c))
      category(e) == Lower(SubSeq(e[1], 9, Len(e[1])))
      fromEnv(e) ==
        IF \/ ~StartsWith(e[1], "CIVITAI_")
           \/ e[1] \in ReservedEnvKeys
           \/ \E n \in 1..Len(ExplicitCategories) : ExplicitCategories[n] = category(e)
           \/ Strip(e[2]) = ""
        THEN <<>>
        ELSE ItemsIn(Strip(e[2]), PathJoin(a.dest_dir, category(e)))
  IN Flatten([n \in 1..Len(ExplicitCategories) |-> explicit(ExplicitCategories[n])])
       \o Flatten([n \in 1..Len(a.environ) |-> fromEnv(a.environ[n])])

\* The model the platform knows; a request for another id is answered 404.
KnownModel == "443821"

\* How a metadata request can end: a network error, a status other than
\* 200, or 200 with the metadata
InfoOutcomes(model_id) ==
  {"error", "status"} \cup (IF model_id = KnownModel THEN {"ok"} ELSE {})

\* Lines 452-462: the version whose id is version_id, else the first one
ChosenVersion(versions, version_id) ==
  LET hits == IF version_id # <<>> /\ version_id[1] # ""
              THEN {n \in 1..Len(versions) : versions[n].id = version_id[1]}
              ELSE {}
  IN IF hits # {} THEN versions[Least(hits)] ELSE versions[1]

\* get_civitai_model_info(model_id), for how the request ended and what
\* the platform serves: the first file of the first version
get_civitai_model_info(outcome, served) ==
  IF outcome # "ok" THEN <<>>
  ELSE IF served.modelVersions = <<>> THEN <<>>
  ELSE IF served.modelVersions[1].files = <<>> THEN <<>>
  ELSE <<[filename |-> served.modelVersions[1].files[1].name,
          download_url |-> served.modelVersions[1].files[1].downloadUrl]>>

NoFetch == [url |-> "", dest |-> ""]

\* A test for the destination that never finds it
ExistsNever(p) == FALSE

\* dest_path.exists()
Exists(p) == fs[p] # "absent"

\* One request: for metadata ("info") or for a file, what was asked for,
\* the path the body is for, how it was answered, and the entry and the file
\* of the entry it was made for
Requested(kind, target, dest, answer, entry, file) ==
  [kind |-> kind, target |-> target, dest |-> dest, answer |-> answer,
   entry |-> entry, file |-> file]

\* A request that got through is answered with status 200.
Answer(outcome) == IF outcome \in {"error", "status"} THEN outcome ELSE "ok"

\* The downloader is not part of the run.
DownloaderOff ==
  /\ fn = "off"
  /\ args = <<>>
  /\ model_entries = <<>>
  /\ catalog = <<>>
  /\ fs = <<>>
  /\ dpc = "off"
  /\ entry_no = 0
  /\ files = <<>>
  /\ file_no = 0
  /\ cur = NoFetch
  /\ requests = <<>>
  /\ last = <<>>
  /\ result = "none"
  /\ pre = <<>>
  /\ earlier = "none"
  /\ processed = <<>>

installerVars ==
  <<cmd, source, doc, pc, data, errors, banner, printed, exitStatus, run,
    resolverVars, ctlVars>>

\* Lines 304-319 of main: the entries are collected; nothing to do without
\* entries, exit 1 without a key, else on to the first entry
Main ==
  /\ fn = "main"
  /\ dpc = "main"
  /\ model_entries' = get_model_entries_from_args(args)
  /\ IF model_entries' = <<>>
     THEN dpc' = "end" /\ result' = "returned" /\ UNCHANGED entry_no
     ELSE IF args.api_key = ""
     THEN dpc' = "end" /\ result' = "exit 1" /\ UNCHANGED entry_no
     ELSE dpc' = "entry" /\ entry_no' = 1 /\ UNCHANGED result
  /\ UNCHANGED <<installerVars, fn, args, catalog, fs, files, file_no, cur, requests, last,
                 pre, earlier, processed>>

\* process_model_entry returns: main goes on to the next entry, or returns
\* after the last one (lines 333-337).
EntryDone ==
  IF entry_no = Len(model_entries)
  THEN dpc' = "end" /\ result' = "returned" /\ UNCHANGED entry_no
  ELSE dpc' = "entry" /\ entry_no' = entry_no + 1 /\ UNCHANGED result

\* The step about one file is over: a direct url was the whole entry, a
\* file of a version is followed by the next file.
FileDone ==
  IF file_no = 0
  THEN EntryDone /\ UNCHANGED file_no
  ELSE dpc' = "files" /\ file_no' = file_no + 1 /\ UNCHANGED <<entry_no, result>>

\* An exception that nothing catches ends the program with a traceback.
Raise == dpc' = "end" /\ result' = "raised" /\ UNCHANGED <<entry_no, file_no>>

\* Lines 418-462 of process_model_entry: a direct url is skipped when its
\* file exists and fetched otherwise; for a model spec the metadata is
\* requested and the version chosen.
ProcessModelEntry ==
  /\ fn = "main"
  /\ dpc = "entry"
  /\ LET entry == model_entries[entry_no].item
         dest_dir == model_entries[entry_no].dest_dir
     IN IF is_direct_url(entry)
        THEN LET filename == IF UrlPathName(entry) # "" THEN UrlPathName(entry) ELSE "model"
                 dest_path == PathJoin(dest_dir, filename)
             IN /\ file_no' = 0
                /\ files' = <<>>
                /\ IF Exists(dest_path)
                   THEN /\ last' = [last EXCEPT ![dest_path] = "skipped"]
                        /\ EntryDone
                        /\ UNCHANGED <<cur, requests>>
                   ELSE /\ cur' = [url |-> entry, dest |-> dest_path]
                        /\ dpc' = "get"
                        /\ UNCHANGED <<entry_no, result, last, requests>>
        ELSE LET spec == ParseModelSpec(entry)
             IN \E outcome \in InfoOutcomes(spec.model_id) :
                  /\ requests' = Append(requests, Requested("info", spec.model_id, "", outcome,
                                                          entry_no, 0))
                  /\ IF outcome # "ok" \/ catalog.modelVersions = <<>>
                     THEN EntryDone /\ UNCHANGED <<files, file_no>>
                     ELSE /\ files' = ChosenVersion(catalog.modelVersions,
                                                    spec.version_id).files
                          /\ file_no' = 1
                          /\ dpc' = "files"
                          /\ UNCHANGED <<entry_no, result>>
                  /\ UNCHANGED <<cur, last>>
  /\ processed' = Append(processed, model_entries[entry_no])
  /\ UNCHANGED <<installerVars, fn, args, model_entries, catalog, fs, pre, earlier>>

\* Lines 465-474: the head of the loop over the files of the version
NextFile ==
  /\ fn = "main"
  /\ dpc = "files"
  /\ IF file_no > Len(files)
     THEN EntryDone /\ UNCHANGED <<file_no, cur, last>>
     ELSE LET url == files[file_no].downloadUrl
              name == files[file_no].name
              dest_path == PathJoin(model_entries[entry_no].dest_dir, name)
          IN IF url = "" \/ name = ""
             THEN file_no' = file_no + 1 /\ UNCHANGED <<dpc, entry_no, result, cur, last>>
             ELSE IF Exists(dest_path)
             THEN /\ last' = [last EXCEPT ![dest_path] = "skipped"]
                  /\ file_no' = file_no + 1
                  /\ UNCHANGED <<dpc, entry_no, result, cur>>
             ELSE /\ cur' = [url |-> url, dest |-> dest_path]
                  /\ dpc' = "get"
                  /\ UNCHANGED <<entry_no, file_no, result, last>>
  /\ UNCHANGED <<installerVars, fn, args, model_entries, catalog, fs, files, requests, pre, earlier, processed>>

\* The handler of process_model_entry for requests.RequestException (lines
\* 433-436, 478-481): the file is removed if it exists.
CaughtRequestException ==
  /\ fs' = [fs EXCEPT ![cur.dest] = "absent"]
  /\ last' = [last EXCEPT ![cur.dest] = "failed"]
  /\ FileDone

\* download_file, lines 373-377: the request, raise_for_status and the
\* opening of the destination for writing
DownloadFileGet ==
  /\ fn = "main"
  /\ dpc = "get"
  /\ \E outcome \in {"error", "status", "oserror", "opened"} :
       /\ requests' = Append(requests, Requested("file", cur.url, cur.dest, Answer(outcome),
                                                 entry_no, file_no))
       /\ CASE outcome \in {"error", "status"} -> CaughtRequestException
         [] outcome = "oserror" ->
              /\ last' = [last EXCEPT ![cur.dest] = "failed"]
              /\ Raise
              /\ UNCHANGED fs
         [] outcome = "opened" ->
              /\ fs' = [fs EXCEPT ![cur.dest] = "empty"]
              /\ dpc' = "stream"
              /\ UNCHANGED <<entry_no, file_no, result, last>>
  /\ UNCHANGED <<installerVars, fn, args, model_entries, catalog, files, cur, pre, earlier, processed>>

\* download_file, lines 378-381: one turn of the loop over the chunks of
\* the body, or its end
DownloadFileChunk ==
  /\ fn = "main"
  /\ dpc = "stream"
  /\ \E outcome \in {"chunk", "end", "error", "oserror"} :
       CASE outcome = "chunk" ->
              /\ fs' = [fs EXCEPT ![cur.dest] = "part"]
              /\ UNCHANGED <<dpc, entry_no, file_no, result, last>>
         [] outcome = "end" ->
              /\ fs' = [fs EXCEPT ![cur.dest] = "whole"]
              /\ last' = [last EXCEPT ![cur.dest] = "saved"]
              /\ FileDone
         [] outcome = "error" -> CaughtRequestException
         [] outcome = "oserror" ->
              /\ last' = [last EXCEPT ![cur.dest] = "failed"]
              /\ Raise
              /\ UNCHANGED fs
  /\ UNCHANGED <<installerVars, fn, args, model_entries, catalog, files, cur, requests, pre, earlier, processed>>

\* download_model, lines 275-299: up to the test whether the destination
\* exists
DownloadModel ==
  /\ fn = "download_model"
  /\ dpc = "download_model"
  /\ LET model_spec == args.model_spec
         start(url, dest_path) ==
           IF Exists(dest_path)
           THEN /\ last' = [last EXCEPT ![dest_path] = "skipped"]
                /\ dpc' = "end"
                /\ result' = "True"
                /\ UNCHANGED cur
           ELSE /\ cur' = [url |-> url, dest |-> dest_path]
                /\ dpc' = "direct get"
                /\ UNCHANGED <<result, last>>
     IN IF is_direct_url(model_spec)
        THEN /\ start(model_spec,
                      get_model_dest_path(args.models_dir, model_spec,
                                          get_filename_from_url(model_spec)))
             /\ UNCHANGED requests
        ELSE LET parsed == parse_urn(model_spec)
             IN IF parsed = <<>>
                THEN dpc' = "end" /\ result' = "False" /\ UNCHANGED <<cur, last, requests>>
                ELSE \E outcome \in InfoOutcomes(parsed[1].model_id) :
                       LET info == get_civitai_model_info(outcome, catalog)
                       IN /\ requests' = Append(requests,
                                                Requested("info", parsed[1].model_id, "",
                                                          outcome, 0, 0))
                          /\ IF info = <<>>
                             THEN dpc' = "end" /\ result' = "False" /\ UNCHANGED <<cur, last>>
                             ELSE start(info[1].download_url,
                                        get_model_dest_path(args.models_dir, model_spec,
                                                            info[1].filename))
  /\ UNCHANGED <<installerVars, fn, args, model_entries, catalog, fs, entry_no, files, file_no, pre, earlier, processed>>

\* download_direct_url, lines 211-216: the request, the test of the status
\* and the opening of the destination for writing
DownloadDirectUrlGet ==
  /\ fn = "download_model"
  /\ dpc = "direct get"
  /\ \E outcome \in {"error", "status", "oserror", "opened"} :
       /\ requests' = Append(requests, Requested("file", cur.url, cur.dest, Answer(outcome),
                                                 0, 0))
       /\ CASE outcome \in {"error", "status"} ->
              /\ last' = [last EXCEPT ![cur.dest] = "failed"]
              /\ dpc' = "end"
              /\ result' = "False"
              /\ UNCHANGED fs
         [] outcome = "oserror" ->
              /\ last' = [last EXCEPT ![cur.dest] = "failed"]
              /\ dpc' = "end"
              /\ result' = "raised"
              /\ UNCHANGED fs
         [] outcome = "opened" ->
              /\ fs' = [fs EXCEPT ![cur.dest] = "empty"]
              /\ dpc' = "direct stream"
              /\ UNCHANGED <<result, last>>
  /\ UNCHANGED <<installerVars, fn, args, model_entries, catalog, entry_no, files, file_no, cur, pre, earlier, processed>>

\* download_direct_url, lines 217-222: one turn of the loop over the chunks
\* of the body, or its end; a requests.RequestException makes it return
\* False.
DownloadDirectUrlChunk ==
  /\ fn = "download_model"
  /\ dpc = "direct stream"
  /\ \E outcome \in {"chunk", "end", "error", "oserror"} :
       CASE outcome = "chunk" ->
              /\ fs' = [fs EXCEPT ![cur.dest] = "part"]
              /\ UNCHANGED <<dpc, result, last>>
         [] outcome = "end" ->
              /\ fs' = [fs EXCEPT ![cur.dest] = "whole"]
              /\ last' = [last EXCEPT ![cur.dest] = "saved"]
              /\ dpc' = "end"
              /\ result' = "True"
         [] outcome = "error" ->
              /\ last' = [last EXCEPT ![cur.dest] = "failed"]
              /\ dpc' = "end"
              /\ result' = "False"
              /\ UNCHANGED fs
         [] outcome = "oserror" ->
              /\ last' = [last EXCEPT ![cur.dest] = "failed"]
              /\ dpc' = "end"
              /\ result' = "raised"
              /\ UNCHANGED fs
  /\ UNCHANGED <<installerVars, fn, args, model_entries, catalog, entry_no, files, file_no, cur, requests, pre, earlier, processed>>

\* The program is run a second time with the same arguments on the
\* directory as the first run left it.
RunAgain ==
  /\ fn # "off"
  /\ dpc = "end"
  /\ earlier = "none"
  /\ earlier' = IF /\ result \in {"returned", "True"}
                   /\ \A n \in 1..Len(requests) : requests[n].answer = "ok"
                   /\ \A p \in DOMAIN last : last[p] # "failed"
                THEN "success"
                ELSE "failure"
  /\ processed' = <<>>
  /\ dpc' = fn
  /\ result' = "none"
  /\ pre' = fs
  /\ requests' = <<>>
  /\ last' = [p \in DOMAIN last |-> "none"]
  /\ entry_no' = 0
  /\ file_no' = 0
  /\ files' = <<>>
  /\ cur' = NoFetch
  /\ UNCHANGED <<installerVars, fn, args, model_entries, catalog, fs>>

NextDownloader ==
  \/ Main
  \/ ProcessModelEntry
  \/ NextFile
  \/ DownloadFileGet
  \/ DownloadFileChunk
  \/ DownloadModel
  \/ DownloadDirectUrlGet
  \/ DownloadDirectUrlChunk
  \/ RunAgain

\* --------------------------------------------------------- the documents
\* All sequences over S of length at most n
SeqsUpTo(S, n) == UNION {[1..m -> S] : m \in 0..n}

\* A section that the manifest does not have
Absent == [t |-> "absent", s |-> "", k |-> <<>>, v |-> <<>>]

\* The mapping with the given keys, without those whose value is Absent
MapOf(keys, vals) ==
  LET here == SelectSeq([i \in 1..Len(keys) |-> i], LAMBDA i : vals[i] # Absent)
  IN Map([j \in 1..Len(here) |-> keys[here[j]]], [j \in 1..Len(here) |-> vals[here[j]]])

Manifest(install, models, custom_nodes, workflows, extra) ==
  MapOf(<<"install", "models", "custom_nodes", "workflows", "extra">>,
        <<install, models, custom_nodes, workflows, extra>>)

Entry(keys, vals) == Map(keys, [i \in 1..Len(vals) |-> Str(vals[i])])

\* Documents of every shape: roots that are not mappings, and manifests
\* whose sections hold values of the right and of the wrong types.
RootDocs ==
  {Null, EmptyList, List(<<Str("x")>>), List(<<EmptyMap>>), Str("ab"),
   Num("5"), Num("0"), Bool("True")}

InstallVals ==
  {Absent, Num("5"),
   Map(<<"cpu_only">>, <<Bool("True")>>),
   Map(<<"cpu_only", "bad">>, <<Str("yes"), Str("x")>>)}

ModelsVals ==
  {Absent, Null, Num("5"),
   Map(<<"ckpt">>, <<List(<<Entry(<<"id", "urn">>, <<"a", "U1">>)>>)>>),
   Map(<<"ckpt">>, <<Num("5")>>),
   Map(<<"ckpt">>, <<List(<<Map(<<"id">>, <<EmptyList>>)>>)>>),
   Map(<<"dest_dir", "ckpt">>, <<Str("/m"), List(<<Entry(<<"name">>, <<"x">>), Num("5")>>)>>)}

NodesVals ==
  {Absent, Num("5"),
   List(<<Entry(<<"id", "url">>, <<"n", "u">>)>>),
   List(<<Entry(<<"name">>, <<"x">>), Str("u")>>)}

Workflows ==
  {Str("w"),
   Map(<<"name", "models">>, <<Str("w"), Null>>),
   Map(<<"models">>, <<Map(<<"ckpt">>, <<List(<<Entry(<<"ref">>, <<"a">>)>>)>>)>>),
   Map(<<"name", "models", "custom_nodes">>,
       <<Str("w"),
         Map(<<"ckpt">>, <<List(<<Entry(<<"ref", "urn">>, <<"b", "U2">>)>>)>>),
         List(<<Entry(<<"ref">>, <<"n">>)>>)>>),
   Map(<<"name", "custom_nodes">>, <<Str("w"), Num("5")>>),
   Map(<<"name", "models">>,
       <<Str("w"), Map(<<"dest_dir", "ckpt">>, <<Str("/m"), List(<<Str("U1")>>)>>)>>)}

WorkflowsVals ==
  {Absent, Num("5"), List(<<Map(<<"name", "models">>, <<Str("w"), EmptyList>>)>>)}
  \cup {List(ws) : ws \in SeqsUpTo(Workflows, MaxWorkflows)}

\* Manifests without any of the four sections
BareDocs ==
  {EmptyMap,
   Map(<<"zeta", "alpha">>, <<Str("1"), Null>>),
   Map(<<"Install">>, <<Map(<<"cpu_only">>, <<Str("yes")>>)>>)}

Docs ==
  RootDocs
  \cup BareDocs
  \cup {Manifest(i, m, n, w, x) :
          i \in InstallVals, m \in ModelsVals, n \in NodesVals,
          w \in WorkflowsVals, x \in {Absent, Str("1")}}

\* Well-typed manifests that differ in which ids the global pools define and
\* in what the workflows refer to: the second workflow is the one whose
\* entries vary, the first (when present) defines ids of its own.
RefGlobalEntries ==
  {Entry(<<"id", "urn">>, <<"a", "U1">>), Entry(<<"id", "urn">>, <<"A", "U2">>)}

RefModels ==
  {Absent,
   Map(<<"lora">>, <<List(<<Entry(<<"id", "urn">>, <<"a", "U1">>)>>)>>),
   Map(<<"ckpt", "lora">>, <<List(<<Entry(<<"id", "urn">>, <<"A", "U2">>)>>),
                             List(<<Entry(<<"id", "urn">>, <<"a", "U1">>)>>)>>)}
  \cup {Map(<<"ckpt">>, <<List(l)>>) : l \in SeqsUpTo(RefGlobalEntries, MaxItems)}

RefNodes ==
  {Absent,
   List(<<Entry(<<"id", "url">>, <<"a", "u">>)>>),
   List(<<Entry(<<"id", "url">>, <<"n", "u">>)>>),
   List(<<Entry(<<"id", "url">>, <<"N", "u">>), Entry(<<"id", "url">>, <<"a", "u">>)>>)}

RefWorkflowEntries ==
  {Entry(<<"ref">>, <<"a">>), Entry(<<"ref">>, <<"b">>),
   Entry(<<"id", "urn">>, <<"b", "U3">>)}

RefWorkflowNodes ==
  {Entry(<<"ref">>, <<"n">>), Entry(<<"ref">>, <<"a">>), Entry(<<"url">>, <<"u">>)}

OtherWorkflow ==
  Map(<<"name", "models", "custom_nodes">>,
      <<Str("o"),
        Map(<<"ckpt">>, <<List(<<Entry(<<"id", "urn">>, <<"a", "U1">>),
                                 Entry(<<"id", "urn">>, <<"b", "U3">>)>>)>>),
        List(<<Entry(<<"id", "url">>, <<"n", "u">>),
               Entry(<<"id", "url">>, <<"a", "u">>)>>)>>)

RefWorkflows ==
  {Map(<<"name", "models", "custom_nodes">>,
       <<Str("w"), Map(<<"ckpt">>, <<List(l)>>), List(n)>>) :
     l \in SeqsUpTo(RefWorkflowEntries, MaxItems),
     n \in SeqsUpTo(RefWorkflowNodes, 1)}

RefDocs ==
  {Manifest(Absent, m, n, List(ws), Absent) :
     m \in RefModels, n \in RefNodes,
     ws \in {<<w>> : w \in RefWorkflows} \cup {<<OtherWorkflow, w>> : w \in RefWorkflows}}

\* Manifests that differ in the fields their model entries and custom node
\* entries carry, in the global sections (workflows absent) or in the one
\* workflow (global sections fixed).
ModelEntries ==
  {Entry(<<"ref">>, <<"a">>), Entry(<<"ref", "urn">>, <<"a", "U1">>),
   Entry(<<"id", "urn">>, <<"a", "U1">>)}

NodeEntries ==
  {Entry(<<"url">>, <<"u">>), Entry(<<"ref">>, <<"n">>),
   Entry(<<"id", "name">>, <<"n", "x">>), Entry(<<"ref", "url">>, <<"n", "u">>),
   Str("u")}

EntryDocs ==
  {Manifest(Absent, Map(<<"ckpt">>, <<List(l)>>), List(n), Absent, Absent) :
     l \in SeqsUpTo(ModelEntries, MaxItems), n \in SeqsUpTo(NodeEntries, MaxItems)}
  \cup
  {Manifest(Absent,
            Map(<<"ckpt">>, <<List(<<Entry(<<"id", "urn">>, <<"a", "U1">>)>>)>>),
            List(<<Entry(<<"id", "url">>, <<"n", "u">>)>>),
            List(<<Map(<<"name", "models", "custom_nodes">>,
                       <<Str("w"), Map(<<"ckpt">>, <<List(l)>>), List(n)>>)>>),
            Absent) :
     l \in SeqsUpTo(ModelEntries, MaxItems), n \in SeqsUpTo(NodeEntries, MaxItems)}

\* Well-typed manifests for the resolver: they differ in the entries of the
\* global ckpt list and of the selected workflow's list (in an existing or
\* in a new category), or in the global custom nodes and the workflow's;
\* the workflow named w stands alone, after another workflow, or before a
\* second workflow of the same name.
ResGlobalEntries == {Str("S1"), Entry(<<"id", "urn">>, <<"a", "U1">>)}

ResGlobalModels ==
  {Absent,
   Map(<<"dest_dir", "ckpt", "lora">>,
       <<Str("/m"), List(<<Entry(<<"id", "url">>, <<"a", "L1">>)>>),
         List(<<Entry(<<"id", "urn">>, <<"a", "U4">>)>>)>>)}
  \cup {Map(<<"ckpt">>, <<List(l)>>) : l \in SeqsUpTo(ResGlobalEntries, MaxItems)}

ResOverlayEntries ==
  {Entry(<<"ref">>, <<"a">>), Entry(<<"ref">>, <<"b">>), Entry(<<"urn">>, <<"U3">>)}

ResGlobalNodes ==
  {Absent,
   List(<<Entry(<<"id", "url">>, <<"n", "u1">>)>>),
   List(<<Entry(<<"id", "url">>, <<"n", "u1">>), Entry(<<"url">>, <<"u2">>)>>),
   List(<<Entry(<<"id">>, <<"m">>), Entry(<<"id", "url">>, <<"n", "u1">>)>>)}

ResOverlayNodes ==
  {Entry(<<"ref">>, <<"n">>), Entry(<<"ref">>, <<"z">>), Entry(<<"url">>, <<"u3">>)}

ResWorkflow(models, nodes) ==
  Map(<<"name", "models", "custom_nodes">>, <<Str("w"), models, List(nodes)>>)

ResOther(name) ==
  Map(<<"name", "models", "custom_nodes">>,
      <<Str(name),
        Map(<<"ckpt", "vae">>, <<List(<<Str("U8")>>), List(<<Str("U9")>>)>>),
        List(<<Entry(<<"url">>, <<"u9">>)>>)>>)

ResWorkflowLists(w) == {<<w>>, <<ResOther("o"), w>>, <<w, ResOther("w")>>}

ResolveDocs ==
  {Manifest(Absent, m, List(<<Entry(<<"id", "url">>, <<"n", "u1">>)>>), List(ws), Absent) :
     m \in ResGlobalModels,
     ws \in UNION {ResWorkflowLists(ResWorkflow(Map(<<c>>, <<List(l)>>),
                                                <<Entry(<<"ref">>, <<"n">>)>>)) :
                     c \in {"ckpt", "vae"},
                     l \in SeqsUpTo(ResOverlayEntries, MaxItems)}}
  \cup
  {Manifest(Absent,
            Map(<<"ckpt">>, <<List(<<Entry(<<"id", "urn">>, <<"a", "U1">>)>>)>>),
            n, List(ws), Absent) :
     n \in ResGlobalNodes,
     ws \in UNION {ResWorkflowLists(ResWorkflow(
                                      Map(<<"ckpt">>, <<List(<<Entry(<<"ref">>, <<"a">>)>>)>>),
                                      l)) :
                     l \in SeqsUpTo(ResOverlayNodes, MaxItems)}}

\* Manifests for the extraction of locators: the global ckpt list holds
\* strings with a comma, with blanks around them, with the text REF: in
\* front or with nothing in them, and mappings with every choice of urn,
\* url and id; the workflow w refers to the global entries.
LocatorEntries ==
  {Str("S1"), Str("a,b"), Str(" x "), Str("REF:a"), Str(""),
   Entry(<<"id", "url", "urn">>, <<"a", "L1", "U1">>),
   Entry(<<"id", "url">>, <<"a", "L1">>),
   Entry(<<"id">>, <<"a">>),
   Entry(<<"urn", "url">>, <<"", "L2">>)}

LocatorOverlays ==
  {<<>>, <<Entry(<<"ref">>, <<"a">>)>>, <<Str(" y"), Entry(<<"ref">>, <<"a">>)>>}

LocatorDocs ==
  {Manifest(Absent, Map(<<"ckpt">>, <<List(l)>>), Absent,
            List(<<Map(<<"name", "models">>, <<Str("w"), Map(<<"ckpt">>, <<List(o)>>)>>)>>),
            Absent) :
     l \in SeqsUpTo(LocatorEntries, MaxItems), o \in LocatorOverlays}

\* The state when the run starts: the validator is about to load the
\* file, or, when the processing code is run on its own, no validator is
\* part of the run.
InitWith(D) ==
  /\ cmd \in {"validate", "install", "resolve", "comfyctl"}
  /\ source \in SourceKinds
  /\ doc \in IF source = "parsed" THEN D ELSE {Null}
  /\ pc = IF cmd \in {"resolve", "comfyctl"} THEN "off" ELSE "load"
  /\ data = Null
  /\ errors = <<>>
  /\ banner = ""
  /\ printed = <<>>
  /\ exitStatus = -1
  /\ run = IF cmd \in {"resolve", "comfyctl"} THEN <<>> ELSE <<"validator">>
  /\ selector = ""
  /\ rpc = "off"
  /\ stdout = <<>>
  /\ stderr = <<>>
  /\ ctl = IF cmd = "comfyctl" THEN "start" ELSE "off"
  /\ ctlBanner = ""
  /\ ctlStatus = -1
  /\ DownloaderOff

Init == InitWith(Docs)

Spec == Init /\ [][Next]_vars

InitRefs == InitWith(RefDocs)

SpecRefs == InitRefs /\ [][Next]_vars

InitEntries == InitWith(EntryDocs)

SpecEntries == InitEntries /\ [][Next]_vars

InitResolve == InitWith(ResolveDocs)

SpecResolve == InitResolve /\ [][Next]_vars

InitLocators == InitWith(LocatorDocs)

SpecLocators == InitLocators /\ [][Next]_vars

\* ---- what the downloader is given
UrnVersioned == "urn:air:sdxl:checkpoint:civitai:443821@1928679"

UrnPlain == "urn:air:sdxl:checkpoint:civitai:443821"

DirectUrl == "https://h/f.bin"

ModelFile(name, url) == [name |-> name, downloadUrl |-> url]

ModelVersion(id, fileSeq) == [id |-> id, files |-> fileSeq]

\* The metadata the platform may serve for the model it knows: the latest
\* version first.
Catalogs ==
  { [modelVersions |->
       << ModelVersion("9", <<ModelFile("n.bin", "https://c/n")>>),
          ModelVersion("1928679", << ModelFile("a.bin", "https://c/a"),
                                     ModelFile("b.bin", "https://c/b") >>) >>],
    [modelVersions |->
       << ModelVersion("1928679", << ModelFile("a.bin", "https://c/a"),
                                     ModelFile("", "https://c/x"),
                                     ModelFile("b.bin", "https://c/b") >>) >>],
    [modelVersions |-> <<>>] }

Environ ==
  << <<"CIVITAI_API_KEY", "k">>, <<"PATH", "/bin">>, <<"CIVITAI_LORAS", "7">>,
     <<"CIVITAI_UNET", "99">>, <<"CIVITAI_CLIP", " 443821 ">>, <<"CIVITAI_EMPTY", " ">> >>

\* The values of --checkpoints and --loras and the environment of a run
CommandLines ==
  { <<"", "", <<>>>>,
    <<UrnVersioned, "", <<>>>>,
    <<DirectUrl \o "," \o UrnPlain, "", <<>>>>,
    <<" 443821:7 ,,443821:9", DirectUrl, <<>>>>,
    <<"", DirectUrl, Environ>>,
    <<"", "", Environ>> }

MainArgs ==
  { [api_key |-> k, dest_dir |-> "m",
     models |-> [c \in {ExplicitCategories[n] : n \in 1..Len(ExplicitCategories)} |->
                   IF c = "checkpoints" THEN line[1]
                   ELSE IF c = "loras" THEN line[2] ELSE ""],
     environ |-> line[3]] :
    k \in {"", "k"}, line \in CommandLines }

DownloadModelArgs ==
  { [model_spec |-> m, models_dir |-> "m"] :
    m \in {DirectUrl, UrnPlain, UrnVersioned, "443821", "https://h/"} }

Paths ==
  { PathJoin(d, n) : d \in {"m", "m/checkpoints", "m/loras", "m/clip"},
                     n \in {"f.bin", "a.bin", "b.bin", "n.bin", "download"} }

\* The files that are there before the first run
OldFiles == { {}, {"m/checkpoints/a.bin", "m/f.bin"}, Paths }

InitDownloader ==
  /\ cmd = "download"
  /\ source = "missing"
  /\ doc = Null
  /\ pc = "off"
  /\ data = Null
  /\ errors = <<>>
  /\ banner = ""
  /\ printed = <<>>
  /\ exitStatus = -1
  /\ run = <<>>
  /\ selector = ""
  /\ rpc = "off"
  /\ stdout = <<>>
  /\ stderr = <<>>
  /\ ctl = "off"
  /\ ctlBanner = ""
  /\ ctlStatus = -1
  /\ fn \in {"main", "download_model"}
  /\ args \in IF fn = "main" THEN MainArgs ELSE DownloadModelArgs
  /\ model_entries = <<>>
  /\ catalog \in Catalogs
  /\ \E old \in OldFiles : fs = [p \in Paths |-> IF p \in old THEN "old" ELSE "absent"]
  /\ dpc = fn
  /\ entry_no = 0
  /\ files = <<>>
  /\ file_no = 0
  /\ cur = NoFetch
  /\ requests = <<>>
  /\ last = [p \in Paths |-> "none"]
  /\ result = "none"
  /\ pre = fs
  /\ earlier = "none"
  /\ processed = <<>>

SpecDownloader == InitDownloader /\ [][NextDownloader]_vars

TypeOK ==
  /\ pc \in {"off", "load", "top", "install", "models", "custom_nodes", "workflows",
             "refs", "report", "exited"}
  /\ rpc \in {"off", "done", "raised"}
  /\ selector \in Selectors
  /\ exitStatus \in {-1, 0, 1, 2}
  /\ ctl \in {"off", "start", "waiting", "exited"}
  /\ ctlStatus \in {-1, 0, 1, 2}
  /\ (ctl = "exited") = (ctlStatus # -1)
  /\ (pc = "exited") = (exitStatus # -1)
  /\ dpc \in {"off", "main", "entry", "files", "get", "stream", "download_model",
              "direct get", "direct stream", "end"}
  /\ result \in {"none", "returned", "exit 1", "raised", "True", "False"}
  /\ (dpc = "end") = (result # "none")
  /\ earlier \in {"none", "success", "failure"}
  /\ \A p \in DOMAIN fs : fs[p] \in {"absent", "old", "empty", "part", "whole"}
  /\ \A p \in DOMAIN last : last[p] \in {"none", "skipped", "saved", "failed"}

\* ------------------------------------------------------------ properties
Range(seq) == {seq[i] : i \in 1..Len(seq)}

\* The run ended with the validator's report (rather than with a fatal
\* exit or a traceback).
Reported == pc = "exited" /\ banner \in {"passed validation", "validation failed"}

\* C1: for a parsed manifest whose root is a mapping, whatever the types of
\* the values nested in it, the validator runs to its report and never ends
\* with an uncaught exception.
C1_NeverRaises ==
  (source = "parsed" /\ doc.t = "map") => banner # "traceback"

\* C2: a document whose root is a list or a scalar ends in the fatal
\* outcome: exit status 2, nothing printed about passing validation and no
\* violation message.
C2_NonMappingRootIsFatal ==
  (pc = "exited" /\ source = "parsed" /\ doc.t \in {"list", "str", "int", "bool"})
    => /\ exitStatus = 2
       /\ banner # "passed validation"
       /\ printed = <<>>

\* C3: the exit status is 0 exactly when the document was checked and the
\* violation list is empty, 1 exactly when the document was parsed and at
\* least one violation was reported, and 2 whenever the source is missing,
\* unreadable or not parsable as YAML.
C3_ThreeWayExit ==
  pc = "exited"
    => /\ (exitStatus = 0) <=> (source = "parsed" /\ Reported /\ errors = <<>>)
       /\ (exitStatus = 1) <=> (source = "parsed" /\ Reported /\ printed # <<>>)
       /\ source \in {"missing", "unreadable", "unparsable"} => exitStatus = 2

\* C4: in an install run the resolver and the download step are started
\* only after the validator has ended, and never when the validator
\* reported a violation; the validator is the first component started.
C4_FailFastGate ==
  ("resolver" \in Range(run) \/ "download" \in Range(run))
    => /\ run[1] = "validator"
       /\ pc = "exited"
       /\ printed = <<>>
       /\ "download" \in Range(run) => run[2] = "resolver"

C4_Witness ==
  cmd = "install" /\ printed # <<>> /\ run = <<"validator", "stopped">>

\* C5: every violation found in any section is in the list the run
\* reports: once the run of a manifest has ended, the reported list is the
\* whole list of violations found.
C5_Aggregates ==
  (pc = "exited" /\ source = "parsed" /\ doc.t = "map") => printed = errors

\* The document's sections as the manifest's author wrote them
Items(x) == IF x.t = "list" THEN x.v ELSE <<>>
Keys(x) == IF x.t = "map" THEN Range(x.k) ELSE {}
DocModels == Get(doc, "models", Absent)
DocNodes == Items(Get(doc, "custom_nodes", Absent))
DocWorkflows == Items(Get(doc, "workflows", Absent))
DocCategories == Keys(DocModels) \ ReservedModelKeys
DocEntries(c) == Items(Get(DocModels, c, Absent))
WfModels(w) == Get(DocWorkflows[w], "models", Absent)
WfEntries(w, c) == Items(Get(WfModels(w), c, Absent))
WfNodes(w) == Items(Get(DocWorkflows[w], "custom_nodes", Absent))

\* The ids carried by the mapping entries of a list
IdsIn(entries) ==
  {Lookup(entries[i], "id") : i \in {j \in 1..Len(entries) : HasKey(entries[j], "id")}}

\* How many times the report holds message m
Count(m) == Cardinality({i \in 1..Len(printed) : printed[i] = m})

\* The reported messages about the node at the given path, without the
\* cross-reference messages
AboutNode(sec, wf, idx) ==
  {i \in 1..Len(printed) :
     /\ printed[i].sec = sec
     /\ printed[i].wf = wf
     /\ printed[i].idx = idx
     /\ printed[i].kind # "ref not found"}

\* C6: in every run that ends with the report, each workflow model entry
\* {ref: r} in category c has exactly one 'ref not found' message (naming the
\* workflow index, c, the item index and r) when r is not the id of an entry
\* of the global models[c] list, and none when it is.
C6_RefNotFoundExactlyOnce ==
  Reported =>
    \A w \in 1..Len(DocWorkflows) : \A c \in Keys(WfModels(w)) \ ReservedModelKeys :
      \A i \in 1..Len(WfEntries(w, c)) :
        LET item == WfEntries(w, c)[i]
        IN HasKey(item, "ref") =>
             Count(Msg("workflows.models", "ref not found", w - 1, c, i - 1,
                       Lookup(item, "ref").s))
               = IF Lookup(item, "ref") \in IdsIn(DocEntries(c)) THEN 0 ELSE 1

C6_Witness ==
  /\ Reported
  /\ \E w \in 1..Len(DocWorkflows) : \E i \in 1..Len(WfEntries(w, "ckpt")) :
       /\ WfEntries(w, "ckpt")[i] = Entry(<<"ref">>, <<"b">>)
       /\ Msg("workflows.models", "ref not found", w - 1, "ckpt", i - 1, "b")
            \in Range(printed)
  /\ \E w \in 1..Len(DocWorkflows) : \E i \in 1..Len(WfEntries(w, "ckpt")) :
       /\ WfEntries(w, "ckpt")[i] = Entry(<<"ref">>, <<"a">>)
       /\ Str("a") \in IdsIn(DocEntries("ckpt"))
       /\ Msg("workflows.models", "ref not found", w - 1, "ckpt", i - 1, "a")
            \notin Range(printed)

\* C7: in every run that ends with the report, each model entry that is a
\* mapping with ref and urn, in the global models or in a workflow's models,
\* has exactly one conflict message, which names the entry's section,
\* category and index; an entry with ref alone has none.
ConflictCount(n, item) ==
  /\ (HasKey(item, "ref") /\ HasKey(item, "urn")) => n = 1
  /\ (HasKey(item, "ref") /\ Keys(item) = {"ref"}) => n = 0

C7_RefUrnConflictExactlyOnce ==
  Reported =>
    /\ \A c \in DocCategories : \A i \in 1..Len(DocEntries(c)) :
         ConflictCount(Count(Msg("models", "cannot have both ref and content",
                                 -1, c, i - 1, "")),
                       DocEntries(c)[i])
    /\ \A w \in 1..Len(DocWorkflows) : \A c \in Keys(WfModels(w)) :
         \A i \in 1..Len(WfEntries(w, c)) :
           ConflictCount(Count(Msg("workflows.models", "cannot have both ref and content",
                                   w - 1, c, i - 1, "")),
                         WfEntries(w, c)[i])

C7_Witness ==
  /\ Reported
  /\ \/ \E i \in 1..Len(DocEntries("ckpt")) :
          /\ DocEntries("ckpt")[i] = Entry(<<"ref", "urn">>, <<"a", "U1">>)
          /\ Msg("models", "cannot have both ref and content", -1, "ckpt", i - 1, "")
               \in Range(printed)
          /\ Entry(<<"ref">>, <<"a">>) \in Range(DocEntries("ckpt"))
     \/ \E w \in 1..Len(DocWorkflows) : \E i \in 1..Len(WfEntries(w, "ckpt")) :
          /\ WfEntries(w, "ckpt")[i] = Entry(<<"ref", "urn">>, <<"a", "U1">>)
          /\ Msg("workflows.models", "cannot have both ref and content", w - 1, "ckpt",
                 i - 1, "") \in Range(printed)
          /\ Entry(<<"ref">>, <<"a">>) \in Range(WfEntries(w, "ckpt"))

\* C8: in every run that ends with the report, a workflow model ref in
\* category c goes without a 'ref not found' message only if an entry of the
\* global models[c] list carries exactly that id, and a workflow custom-node
\* ref only if an entry of the global custom_nodes list does; ids of other
\* categories, of custom nodes, of workflows, or in another case do not count.
C8_RefScopeExact ==
  Reported =>
    \A w \in 1..Len(DocWorkflows) :
      /\ \A c \in Keys(WfModels(w)) \ ReservedModelKeys :
           \A i \in 1..Len(WfEntries(w, c)) :
             LET item == WfEntries(w, c)[i]
             IN (/\ HasKey(item, "ref")
                 /\ Msg("workflows.models", "ref not found", w - 1, c, i - 1,
                        Lookup(item, "ref").s) \notin Range(printed))
                  => \E e \in Range(DocEntries(c)) :
                       HasKey(e, "id") /\ Lookup(e, "id") = Lookup(item, "ref")
      /\ \A i \in 1..Len(WfNodes(w)) :
           LET node == WfNodes(w)[i]
           IN (/\ HasKey(node, "ref")
               /\ Msg("workflows.custom_nodes", "ref not found", w - 1, "", i - 1,
                      Lookup(node, "ref").s) \notin Range(printed))
                => \E e \in Range(DocNodes) :
                     HasKey(e, "id") /\ Lookup(e, "id") = Lookup(node, "ref")

\* A model ref a is reported although a is an id of another category, of a
\* custom node and of a workflow and A is an id of the ref's category; a
\* node ref n is reported although N is a global node id.
C8_Witness ==
  /\ Reported
  /\ Len(DocWorkflows) = 2
  /\ Str("A") \in IdsIn(DocEntries("ckpt"))
  /\ Str("a") \in IdsIn(DocEntries("lora"))
  /\ Str("a") \in IdsIn(WfEntries(1, "ckpt"))
  /\ Str("N") \in IdsIn(DocNodes)
  /\ Str("a") \in IdsIn(DocNodes)
  /\ WfEntries(2, "ckpt") = <<Entry(<<"ref">>, <<"a">>)>>
  /\ WfNodes(2) = <<Entry(<<"ref">>, <<"n">>)>>
  /\ Msg("workflows.models", "ref not found", 1, "ckpt", 0, "a") \in Range(printed)
  /\ Msg("workflows.custom_nodes", "ref not found", 1, "", 0, "n") \in Range(printed)

\* The rule the claims state for a custom node entry: accepted (no message
\* about it) with exactly one of the two fields, reported otherwise.
ExactlyOneOf(about, a, b) ==
  /\ (a # b) => about = {}
  /\ (a = b) => about # {}

\* The rule of the global list: accepted with url or id, reported without.
AtLeastOneOf(about, a, b) ==
  /\ (a \/ b) => about = {}
  /\ (~a /\ ~b) => about # {}

\* C9 as stated: in every run that ends with the report, each custom node
\* entry, in the global list or in a workflow's list, is accepted when it
\* carries ref only or url only and reported when it carries neither or both.
C9_RefXorUrlEverywhere ==
  Reported =>
    /\ \A i \in 1..Len(DocNodes) :
         DocNodes[i].t = "map" =>
           ExactlyOneOf(AboutNode("custom_nodes", -1, i - 1),
                        HasKey(DocNodes[i], "ref"), HasKey(DocNodes[i], "url"))
    /\ \A w \in 1..Len(DocWorkflows) : \A i \in 1..Len(WfNodes(w)) :
         WfNodes(w)[i].t = "map" =>
           ExactlyOneOf(AboutNode("workflows.custom_nodes", w - 1, i - 1),
                        HasKey(WfNodes(w)[i], "ref"), HasKey(WfNodes(w)[i], "url"))

\* C9 as amended: the ref-or-url rule holds for the entries of a workflow's
\* custom_nodes list; an entry of the global list is accepted when it
\* carries url or id and reported when it carries neither.
C9_RefXorUrlInWorkflows ==
  Reported =>
    /\ \A i \in 1..Len(DocNodes) :
         DocNodes[i].t = "map" =>
           AtLeastOneOf(AboutNode("custom_nodes", -1, i - 1),
                        HasKey(DocNodes[i], "url"), HasKey(DocNodes[i], "id"))
    /\ \A w \in 1..Len(DocWorkflows) : \A i \in 1..Len(WfNodes(w)) :
         WfNodes(w)[i].t = "map" =>
           ExactlyOneOf(AboutNode("workflows.custom_nodes", w - 1, i - 1),
                        HasKey(WfNodes(w)[i], "ref"), HasKey(WfNodes(w)[i], "url"))

C9_Witness ==
  /\ Reported
  /\ Len(DocWorkflows) = 1
  /\ WfNodes(1) = <<Entry(<<"id", "name">>, <<"n", "x">>), Entry(<<"ref">>, <<"n">>)>>
  /\ AboutNode("workflows.custom_nodes", 0, 0) # {}
  /\ AboutNode("workflows.custom_nodes", 0, 1) = {}

OnlyMessage(about, m) == Cardinality(about) = 1 /\ Count(m) = 1

C11_WorkflowNodeRule ==
  Reported =>
    \A w \in 1..Len(DocWorkflows) : \A i \in 1..Len(WfNodes(w)) :
      LET node == WfNodes(w)[i]
          about == AboutNode("workflows.custom_nodes", w - 1, i - 1)
          m(kind) == Msg("workflows.custom_nodes", kind, w - 1, "", i - 1, "")
      IN /\ node.t # "map" => OnlyMessage(about, m("must be mapping"))
         /\ (node.t = "map" /\ ~HasKey(node, "url") /\ ~HasKey(node, "ref"))
              => OnlyMessage(about, m("missing url or ref"))
         /\ (HasKey(node, "url") /\ HasKey(node, "ref"))
              => OnlyMessage(about, m("cannot have both ref and url"))
         /\ (node.t = "map" /\ HasKey(node, "url") # HasKey(node, "ref"))
              => about = {}

C11_Witness ==
  /\ Reported
  /\ Len(DocWorkflows) = 1
  /\ WfNodes(1) = <<Str("u"), Entry(<<"ref", "url">>, <<"n", "u">>)>>
  /\ Count(Msg("workflows.custom_nodes", "must be mapping", 0, "", 0, "")) = 1
  /\ Count(Msg("workflows.custom_nodes", "cannot have both ref and url", 0, "", 1, "")) = 1

\* The structural messages the report holds about the models section of
\* workflow w, in order
WfModelMsgs(w) ==
  SelectSeq(printed, LAMBDA m : /\ m.sec = "workflows.models"
                                /\ m.wf = w - 1
                                /\ m.kind # "ref not found")

\* The messages of the top-level models check for a manifest whose models
\* section is M, with the path prefix of workflow w
AsGlobalModels(M, w) ==
  LET global == CheckModels(Map(<<"models">>, <<M>>)).errs
  IN [j \in 1..Len(global) |->
        Msg("workflows.models", global[j].kind, w - 1, global[j].cat,
            global[j].idx, global[j].arg)]

\* C12: in every run that ends with the report, the structural messages
\* about the models section M of a workflow are, up to the path prefix,
\* exactly the messages the top-level models check gives for M, the keys
\* dest_dir and source_dir included.
C12_SameRulesAsGlobal ==
  Reported =>
    \A w \in 1..Len(DocWorkflows) :
      HasKey(DocWorkflows[w], "models")
        => WfModelMsgs(w) = AsGlobalModels(Lookup(DocWorkflows[w], "models"), w)

\* The manifest has none of the four sections
NoSections == doc.t \in {"map", "null"} /\ Keys(doc) \cap AllowedTop = {}

\* C13 as stated: the run of a manifest that has none of the keys install,
\* models, custom_nodes, workflows ends with the report, no violation and
\* exit status 0.
C13_NoSectionsNoViolations ==
  (pc = "exited" /\ source = "parsed" /\ NoSections)
    => /\ Reported
       /\ printed = <<>>
       /\ exitStatus = 0

\* C13 as amended: the run of such a manifest ends with the report, and the
\* report holds one 'unknown top-level key' message for each key of the
\* manifest, in document order, and nothing else; the manifest without keys
\* (and the empty file) has no violation and exit status 0.
C13_OnlyUnknownKeyViolations ==
  (pc = "exited" /\ source = "parsed" /\ NoSections)
    => /\ Reported
       /\ printed = [i \in 1..Len(doc.k) |->
                       Msg("top", "unknown key", -1, "", -1, doc.k[i])]
       /\ exitStatus = IF doc.k = <<>> THEN 0 ELSE 1

C13_Witness ==
  /\ Reported
  /\ doc = EmptyMap
  /\ printed = <<>>
  /\ exitStatus = 0

\* The place of a message in the order of the checks
Rank(m) ==
  CASE m.kind = "ref not found" -> 6
    [] m.sec = "top" -> 1
    [] m.sec = "install" -> 2
    [] m.sec = "models" -> 3
    [] m.sec = "custom_nodes" -> 4
    [] OTHER -> 5

\* C15: at every moment of a run the messages emitted so far are in the
\* order of the checks: unknown top-level keys, install, models,
\* custom_nodes, the structural messages of the workflows in workflow index
\* order, and after all of them the 'ref not found' messages.
C15_MessagesInCheckOrder ==
  \A i, j \in 1..Len(errors) :
    i < j => /\ Rank(errors[i]) <= Rank(errors[j])
             /\ (Rank(errors[i]) = 5 /\ Rank(errors[j]) = 5)
                  => errors[i].wf <= errors[j].wf

\* A report with a message of each of the sections and, after the
\* structural messages of two workflows, a 'ref not found' message about the
\* first of them.
C15_Witness ==
  /\ Reported
  /\ {Rank(printed[i]) : i \in 1..Len(printed)} = {1, 2, 3, 4, 5, 6}
  /\ \E i, j, k \in 1..Len(printed) :
       /\ i < j /\ j < k
       /\ Rank(printed[i]) = 5 /\ printed[i].wf = 0
       /\ Rank(printed[j]) = 5 /\ printed[j].wf = 1
       /\ Rank(printed[k]) = 6 /\ printed[k].wf = 0

\* ------------------------------------------- properties of the resolver
\* The workflow the selector names: the index of the first workflow of the
\* document with that name, 0 when there is none or nothing is selected
SelectedIndex ==
  LET named == {w \in 1..Len(DocWorkflows) :
                  Get(DocWorkflows[w], "name", Absent) = Str(selector)}
  IN IF selector = "" \/ named = {} THEN 0 ELSE Least(named)

\* The locator an entry carries itself: a string as it is, of a mapping the
\* urn, else the url, else the id
OwnLocator(e) ==
  CASE e.t = "str" -> <<e.s>>
    [] HasKey(e, "urn") -> <<Lookup(e, "urn").s>>
    [] HasKey(e, "url") -> <<Lookup(e, "url").s>>
    [] HasKey(e, "id") -> <<Lookup(e, "id").s>>
    [] OTHER -> <<>>

\* What an entry of category c contributes: its own locator, or for a
\* reference the locator of the first global entry of c with that id,
\* nothing when there is none
Contribution(c, e) ==
  IF HasKey(e, "ref")
  THEN LET targets == {i \in 1..Len(DocEntries(c)) :
                         Get(DocEntries(c)[i], "id", Absent) = Lookup(e, "ref")}
       IN IF targets = {} THEN <<>> ELSE OwnLocator(DocEntries(c)[Least(targets)])
  ELSE OwnLocator(e)

Contributions(c, entries) ==
  Flatten([i \in 1..Len(entries) |-> Contribution(c, entries[i])])

GlobalLocators(c) == Contributions(c, DocEntries(c))

OverlayLocators(c) ==
  IF SelectedIndex = 0 THEN <<>> ELSE Contributions(c, WfEntries(SelectedIndex, c))

\* The value the shell holds for a variable after evaluating the lines
Exported(lines, name) ==
  LET named == SelectSeq(lines, LAMBDA l : l.name = name)
  IN IF named = <<>> THEN "" ELSE named[Len(named)].value

\* The sequence a consumer reads from a variable: the items between the
\* separators, none for an empty or absent variable
ItemsOf(lines, name, sep) ==
  IF Exported(lines, name) = "" THEN <<>> ELSE Split(Exported(lines, name), sep)

CategoryOutput(lines, c) == ItemsOf(lines, "CIVITAI_" \o Upper(c), ",")
NodeUrlOutput(lines) == ItemsOf(lines, "YAML_CUSTOM_NODE_URLS", " ")

\* The lines the resolver prints for the same file with no workflow selected
NoWorkflowLines == OfStream(Resolver(OrElse(doc, EmptyMap), "").errs, "out")

\* Every category of the document: of the global models and of a workflow
AllCategories ==
  DocCategories \cup UNION {Keys(WfModels(w)) : w \in 1..Len(DocWorkflows)}

\* C16: after a run of the resolver, with no workflow selected the output
\* of every category is the sequence of locators of its global entries; with
\* a workflow selected, a category the workflow does not define has the
\* output of the run with no workflow, and a category it defines has the
\* locators of the global entries followed by those of the workflow's
\* entries (those alone when the category is not a global one).
C16_Monotone ==
  rpc = "done" =>
    \A c \in AllCategories :
      /\ selector = "" => CategoryOutput(stdout, c) = GlobalLocators(c)
      /\ (SelectedIndex # 0 /\ c \notin Keys(WfModels(SelectedIndex)))
           => CategoryOutput(stdout, c) = CategoryOutput(NoWorkflowLines, c)
      /\ (SelectedIndex # 0 /\ c \in Keys(WfModels(SelectedIndex)))
           => CategoryOutput(stdout, c) = GlobalLocators(c) \o OverlayLocators(c)

\* Workflow w is selected and comes after another workflow: ckpt has the
\* global locator followed by the overlay's (the same locator through the
\* reference, then U3), lora is as without a workflow, and vae, which only
\* the other workflow defines, has no output.
C16_Witness ==
  /\ rpc = "done"
  /\ selector = "w"
  /\ SelectedIndex = 2
  /\ DocCategories = {"ckpt", "lora"}
  /\ Keys(WfModels(2)) = {"ckpt"}
  /\ CategoryOutput(stdout, "ckpt") = <<"L1", "L1", "U3">>
  /\ CategoryOutput(stdout, "lora") = <<"U4">>
  /\ CategoryOutput(stdout, "vae") = <<>>

\* The urls of the entries of the global custom_nodes list that carry one
GlobalUrls ==
  Flatten([i \in 1..Len(DocNodes) |->
             IF HasKey(DocNodes[i], "url") THEN <<Lookup(DocNodes[i], "url").s>> ELSE <<>>])

\* The global custom node a reference r names: the last of the list whose
\* id is r, none when no node has that id
NodesNamed(r) ==
  LET named == {i \in 1..Len(DocNodes) : Get(DocNodes[i], "id", Absent) = r}
  IN IF named = {} THEN {} ELSE {CHOOSE i \in named : \A j \in named : j <= i}

\* What a custom node entry of the selected workflow contributes: its own
\* url, or for a reference the url of the global node of that id
NodeContribution(node) ==
  IF HasKey(node, "url") THEN <<Lookup(node, "url").s>>
  ELSE IF HasKey(node, "ref")
  THEN Flatten([i \in 1..Len(DocNodes) |->
                  IF i \in NodesNamed(Lookup(node, "ref")) /\ HasKey(DocNodes[i], "url")
                  THEN <<Lookup(DocNodes[i], "url").s>> ELSE <<>>])
  ELSE <<>>

OverlayUrls ==
  IF SelectedIndex = 0 THEN <<>>
  ELSE Flatten([i \in 1..Len(WfNodes(SelectedIndex)) |->
                  NodeContribution(WfNodes(SelectedIndex)[i])])

\* How many times x occurs in a sequence
Occurrences(seq, x) == Cardinality({i \in 1..Len(seq) : seq[i] = x})

WithKey(m, key, val) ==
  Map(m.k, [i \in 1..Len(m.k) |-> IF m.k[i] = key THEN val ELSE m.v[i]])

\* The sequence without its i-th element
Without(seq, i) == SubSeq(seq, 1, i - 1) \o SubSeq(seq, i + 1, Len(seq))

\* The document with the i-th entry of category c of the selected workflow
\* taken out of its list
DocWithoutEntry(c, i) ==
  LET w == SelectedIndex
      wf == WithKey(DocWorkflows[w], "models",
                    WithKey(WfModels(w), c, List(Without(WfEntries(w, c), i))))
  IN WithKey(doc, "workflows",
             List([j \in 1..Len(DocWorkflows) |-> IF j = w THEN wf ELSE DocWorkflows[j]]))

\* The entries of category c of the selected workflow whose ref is the id of
\* no entry of the global list of c
Dangling(c) ==
  IF SelectedIndex = 0 THEN {}
  ELSE {i \in 1..Len(WfEntries(SelectedIndex, c)) :
          LET e == WfEntries(SelectedIndex, c)[i]
          IN /\ HasKey(e, "ref")
             /\ \A g \in 1..Len(DocEntries(c)) :
                  Get(DocEntries(c)[g], "id", Absent) # Lookup(e, "ref")}

\* The warning of the resolver for a ref r that is not found in category c
RefWarning(r, c) == Line("err", "WARNING_REF_NOT_FOUND", r, c)

\* C18: when an entry of the selected workflow's list of a category has a
\* ref that is the id of no global entry of that category, the run of the
\* resolver completes, and compared with the run on the same file without
\* that entry it prints the same lines on stdout (the entry adds no locator
\* and changes no other category) and exactly one more warning naming the
\* ref and the category.
C18_DanglingModelRefWarns ==
  (rpc # "off" /\ source = "parsed") =>
    \A c \in AllCategories : \A i \in Dangling(c) :
      LET r == Lookup(WfEntries(SelectedIndex, c)[i], "ref").s
          rest == Resolver(DocWithoutEntry(c, i), selector)
      IN /\ rpc = "done"
         /\ rest.ok
         /\ stdout = OfStream(rest.errs, "out")
         /\ Occurrences(stderr, RefWarning(r, c))
              = Occurrences(OfStream(rest.errs, "err"), RefWarning(r, c)) + 1
         /\ \A l \in Range(stderr) \cup Range(rest.errs) :
              l # RefWarning(r, c)
                => Occurrences(stderr, l) = Occurrences(OfStream(rest.errs, "err"), l)

\* The selected workflow's ckpt list is a ref to b, which no global entry
\* has, followed by a ref to a: one warning for b, and the output is the
\* global locator and the locator a refers to.
C18_Witness ==
  /\ rpc = "done"
  /\ SelectedIndex = 1
  /\ DocEntries("ckpt") = <<Entry(<<"id", "urn">>, <<"a", "U1">>)>>
  /\ WfEntries(1, "ckpt") = <<Entry(<<"ref">>, <<"b">>), Entry(<<"ref">>, <<"a">>)>>
  /\ Dangling("ckpt") = {1}
  /\ Occurrences(stderr, RefWarning("b", "ckpt")) = 1
  /\ CategoryOutput(stdout, "ckpt") = <<"U1", "U1">>

\* The document with the n-th custom node of the selected workflow taken
\* out of its list
DocWithoutNode(n) ==
  LET w == SelectedIndex
      wf == WithKey(DocWorkflows[w], "custom_nodes", List(Without(WfNodes(w), n)))
  IN WithKey(doc, "workflows",
             List([j \in 1..Len(DocWorkflows) |-> IF j = w THEN wf ELSE DocWorkflows[j]]))

\* The custom nodes of the selected workflow that are {ref: r} with r the
\* id of no global custom node
DanglingNodes ==
  IF SelectedIndex = 0 THEN {}
  ELSE {n \in 1..Len(WfNodes(SelectedIndex)) :
          LET node == WfNodes(SelectedIndex)[n]
          IN /\ HasKey(node, "ref")
             /\ ~HasKey(node, "url")
             /\ \A g \in 1..Len(DocNodes) :
                  Get(DocNodes[g], "id", Absent) # Lookup(node, "ref")}

NotFoundNote == Line("err", "WORKFLOW_NOT_FOUND", selector, "")

\* The document with the selected workflow as its only workflow
DocOnlySelected == WithKey(doc, "workflows", List(<<DocWorkflows[SelectedIndex]>>))

\* C20: after a run of the resolver on a parsed file, when the selector
\* is the name of no workflow the not-found warning is printed once and the
\* output of every category and the node-url output are those of the run
\* with no workflow selected; when it is the name of a workflow, no such
\* warning is printed and the outputs are those of the run on the file
\* with that workflow alone, the other workflows adding nothing.
C20_SelectorPicksOneOrNone ==
  (rpc # "off" /\ source = "parsed" /\ selector # "") =>
    /\ rpc = "done"
    /\ SelectedIndex = 0 =>
         /\ Occurrences(stderr, NotFoundNote) = 1
         /\ stdout = NoWorkflowLines
         /\ \A c \in AllCategories : CategoryOutput(stdout, c) = GlobalLocators(c)
         /\ NodeUrlOutput(stdout) = GlobalUrls
    /\ SelectedIndex # 0 =>
         /\ Get(DocWorkflows[SelectedIndex], "name", Absent) = Str(selector)
         /\ Occurrences(stderr, NotFoundNote) = 0
         /\ stdout = OfStream(Resolver(DocOnlySelected, selector).errs, "out")
         /\ \A c \in AllCategories :
              CategoryOutput(stdout, c)
                = GlobalLocators(c) \o Contributions(c, WfEntries(SelectedIndex, c))

\* Two workflows, o and w, are defined and the selector is x: the warning
\* is printed, and ckpt, vae and the node urls are those of the global
\* sections alone.
C20_Witness ==
  /\ rpc = "done"
  /\ selector = "x"
  /\ Len(DocWorkflows) = 2
  /\ \A w \in 1..2 : WfEntries(w, "ckpt") # <<>> /\ WfNodes(w) # <<>>
  /\ Occurrences(stderr, NotFoundNote) = 1
  /\ CategoryOutput(stdout, "ckpt") = <<"U1">>
  /\ CategoryOutput(stdout, "vae") = <<>>
  /\ NodeUrlOutput(stdout) = <<"u1">>

\* The locators of category c: those of the global entries, then those of
\* the selected workflow's entries
Locators(c) == GlobalLocators(c) \o OverlayLocators(c)

\* C21: after a run of the resolver, the output of every category is, entry
\* by entry, the string itself for a string entry, the urn, else the url,
\* else the id of a mapping entry without ref, and for an entry with ref the
\* locator found in the same way in the global entry of that category whose
\* id is the ref.
C21_LocatorExtraction ==
  rpc = "done" => \A c \in AllCategories : CategoryOutput(stdout, c) = Locators(c)

\* C22: after a run of the resolver, no line of its output gives a name an
\* empty value: a category or a node-url list with no usable locator has no
\* line at all.
C22_NoEmptyOutput ==
  rpc = "done" => \A i \in 1..Len(stdout) : stdout[i].value # ""

\* C27: when comfyctl validate has exited, its status is the status the
\* validator exited with if the config path exists, and the validator ran;
\* if the path does not exist it printed the not-found message, exited with
\* a status other than 0, and the validator was never started.
C27_ValidateStatus ==
  ctl = "exited" =>
    IF source = "missing"
    THEN ctlBanner = "Config file not found" /\ ctlStatus # 0 /\ run = <<>> /\ pc = "off"
    ELSE ctlStatus = exitStatus /\ pc = "exited" /\ run # <<>> /\ ctlBanner = ""

\* comfyctl validate has passed on status 1 of a validator that found errors
\* in a manifest.
C27_Witness ==
  ctl = "exited" /\ source = "parsed" /\ ctlStatus = 1 /\ errors # <<>>

\* The manifest without entry i of the global list of category c
DocWithoutGlobalEntry(c, i) ==
  WithKey(doc, "models", WithKey(DocModels, c, List(Without(DocEntries(c), i))))

\* What the resolver prints for category c on manifest d
OutputOn(d, c) == CategoryOutput(OfStream(Resolver(d, selector).errs, "out"), c)

\* The entries of a list that carry ref
WithRef(entries) == {i \in 1..Len(entries) : HasKey(entries[i], "ref")}

\* C28: when the install run has resolved a manifest the validator passed,
\* with no workflow or a workflow the manifest defines selected, no
\* reference is reported as not found, and every entry with a ref, in a
\* global list, in a list of the selected workflow or among its custom
\* nodes, accounts for exactly one locator of the output: without the entry
\* the output has one locator less.
C28_ValidatedRefsResolve ==
  ( /\ cmd = "install"
    /\ rpc = "done"
    /\ exitStatus = 0
    /\ (selector = "" \/ SelectedIndex # 0) )
  => /\ \A l \in Range(stderr) : l.name # "WARNING_REF_NOT_FOUND"
     /\ \A c \in AllCategories :
          /\ \A i \in WithRef(DocEntries(c)) :
               Len(CategoryOutput(stdout, c)) = Len(OutputOn(DocWithoutGlobalEntry(c, i), c)) + 1
          /\ SelectedIndex # 0 =>
               \A i \in WithRef(WfEntries(SelectedIndex, c)) :
                 Len(CategoryOutput(stdout, c)) = Len(OutputOn(DocWithoutEntry(c, i), c)) + 1
     /\ SelectedIndex # 0 =>
          \A n \in WithRef(WfNodes(SelectedIndex)) :
            Len(NodeUrlOutput(stdout))
              = Len(NodeUrlOutput(OfStream(Resolver(DocWithoutNode(n), selector).errs,
                                           "out"))) + 1

\* ---- the downloader

\* The model spec the n-th request of this run was made for
SpecOf(n) ==
  IF fn = "main" THEN model_entries[requests[n].entry].item ELSE args.model_spec

\* C23: the URN urn:air:sdxl:checkpoint:civitai:443821@1928679 parses into
\* sdxl, checkpoint, civitai, model id 443821 and version 1928679, by
\* parse_urn as by _parse_model_spec, and every metadata request made for
\* it, or for the same URN without a version, asks the platform for model
\* 443821.
C23_UrnModelId ==
  /\ \A n \in 1..Len(requests) :
       (requests[n].kind = "info" /\ SpecOf(n) \in {UrnVersioned, UrnPlain})
         => requests[n].target = "443821"
  /\ (dpc = "end" /\ fn = "download_model" /\ args.model_spec = UrnVersioned)
       => /\ parse_urn(args.model_spec) # <<>>
          /\ parse_urn(args.model_spec)[1].model_type = "sdxl"
          /\ parse_urn(args.model_spec)[1].category = "checkpoint"
          /\ parse_urn(args.model_spec)[1].platform = "civitai"
          /\ parse_urn(args.model_spec)[1].model_id = "443821"
  /\ \A n \in 1..Len(processed) :
       processed[n].item = UrnVersioned
         => ParseModelSpec(processed[n].item) =
              [model_id |-> "443821", version_id |-> <<"1928679">>]

\* C24: whenever the last fetch to a path failed (a status other than 200,
\* a network error before or during streaming, a write error), no file
\* exists at that path, in process_model_entry as in download_model.
C24_FailedFetchLeavesNoFile ==
  \A p \in DOMAIN last : last[p] = "failed" => fs[p] = "absent"

\* C25: a file at a final path is always complete: it was there before the
\* program ran or its whole body has been written.
C25_FinalPathComplete ==
  \A p \in DOMAIN fs : fs[p] \in {"absent", "old", "whole"}

\* The requests of this run for a body to be written to path p
FetchesTo(p) == {n \in 1..Len(requests) : requests[n].kind = "file" /\ requests[n].dest = p}

\* C26: a path that held a file when the run started is never requested and
\* keeps its content, the step about it ends as skipped, and download_model
\* returns True on it; a run after a fully successful run on the same
\* arguments requests no file and changes none.
C26_Idempotent ==
  /\ \A p \in DOMAIN fs :
       pre[p] # "absent" => /\ fs[p] = pre[p]
                            /\ FetchesTo(p) = {}
                            /\ last[p] \in {"none", "skipped"}
  /\ (fn = "download_model" /\ dpc = "end" /\ \E p \in DOMAIN last : last[p] = "skipped")
       => result = "True"
  /\ earlier = "success"
       => /\ fs = pre
          /\ \A n \in 1..Len(requests) : requests[n].kind # "file"

\* A second run of main, after a run that saved a file, has found it and
\* skipped it.
C26_Witness ==
  /\ fn = "main"
  /\ earlier = "success"
  /\ dpc = "end"
  /\ \E p \in DOMAIN last : last[p] = "skipped" /\ pre[p] = "whole"

\* Whether entry e of main comes from an explicit category
FromExplicitCategory(e) ==
  \E n \in 1..Len(ExplicitCategories) :
    e.dest_dir = PathJoin(args.dest_dir, ExplicitCategories[n])

\* C29: main makes no request and processes nothing without an API key;
\* with entries and no key it ends with exit status 1; without entries it
\* returns; the entries it has processed are at any time the first ones of
\* the list, each once and in order, those of the explicit categories before
\* those found in the environment; and when main has ended with a key, it
\* has processed every entry.
C29_MainProcessesEntries ==
  fn = "main" /\ dpc # "main" =>
    /\ args.api_key = "" => requests = <<>> /\ processed = <<>>
    /\ (dpc = "end" /\ args.api_key = "" /\ model_entries # <<>>) => result = "exit 1"
    /\ (dpc = "end" /\ model_entries = <<>>) => result = "returned"
    /\ Len(processed) <= Len(model_entries)
    /\ \A n \in 1..Len(processed) : processed[n] = model_entries[n]
    /\ \A a, b \in 1..Len(processed) :
         (a < b /\ FromExplicitCategory(processed[b])) => FromExplicitCategory(processed[a])
    /\ (dpc = "end" /\ args.api_key # "") => processed = model_entries

\* The version of the metadata whose files entry e of main is to fetch
ExpectedVersion(e) ==
  LET named == ParseModelSpec(model_entries[e].item).version_id
      present == {x \in 1..Len(catalog.modelVersions) :
                    <<catalog.modelVersions[x].id>> = named}
  IN IF present # {}
     THEN catalog.modelVersions[CHOOSE x \in present : TRUE]
     ELSE catalog.modelVersions[1]

\* The requests of this run for file k of entry e
FetchesFor(e, k) ==
  {n \in 1..Len(requests) :
     requests[n].kind = "file" /\ requests[n].entry = e /\ requests[n].file = k}

\* C30: once process_model_entry is over for an entry whose metadata was
\* obtained, every file request made for it is for a file of the version it
\* names, or of the first version if it names none or one that is not
\* there; and each file of that version with a name and a download url was
\* attempted once: it was requested once, or never because it was already
\* there, whatever happened to the files before it.
C30_VersionFilesAttempted ==
  \A n \in 1..Len(requests) :
    ( /\ fn = "main"
      /\ requests[n].kind = "info"
      /\ requests[n].answer = "ok"
      /\ catalog.modelVersions # <<>>
      /\ (dpc = "end" \/ entry_no > requests[n].entry) )
    => LET e == requests[n].entry
           want == ExpectedVersion(e).files
       IN /\ \A m \in 1..Len(requests) :
               (requests[m].kind = "file" /\ requests[m].entry = e)
                 => /\ requests[m].file \in 1..Len(want)
                    /\ requests[m].target = want[requests[m].file].downloadUrl
          /\ \A k \in 1..Len(want) :
               IF want[k].name = "" \/ want[k].downloadUrl = ""
               THEN FetchesFor(e, k) = {}
               ELSE \/ Cardinality(FetchesFor(e, k)) = 1
                    \/ /\ FetchesFor(e, k) = {}
                       /\ Exists(PathJoin(model_entries[e].dest_dir, want[k].name))

====
